---- MODULE Spec2Model ----
(***************************************************************************)
(* A model of the crawl / download / commit pipeline of new.py and         *)
(* download_and_push.py.                                                   *)
(*                                                                         *)
(* Strings of the program (URLs, hrefs, paths) are sequences of one-       *)
(* character strings, so that urljoin, splitext, lower, find, lstrip and   *)
(* normpath are computed character by character as the libraries do.       *)
(* The input alphabet has no '?', '#', ';', whitespace or '[' ']'.         *)
(***************************************************************************)
EXTENDS Integers, Sequences, FiniteSets, TLC

\* ------------------------------------------------------------------------
\* Bounds of the model
\* ------------------------------------------------------------------------

\* Most anchors on the listing pages of the site, all pages together.
MaxAnchors == 4

\* Most chunks of a remote body or a local file.  A chunk is what one step of
\* iter_content yields; sizes (Content-Length, getsize) count chunks.
MaxBody == 2

\* BATCH_SIZE of the scripts, 20, scaled to the runs of the model (new.py
\* line 42).
BATCH_SIZE == 2

\* The most candidates a run of main is given.
MaxFiles == 3

\* The most candidates of a run of main that is followed to its last line.
MaxRunFiles == 2

\* The most candidates of a run of main of download_and_push.py that is
\* followed to its last line.
MaxDapFiles == 1

\* The most lines a "git status --porcelain" of the model prints.
MaxChanged == 3

\* The most renames staged in the index git status reports on.
MaxRenames == 1

\* MAX_FILE_SIZE_BYTES in chunks: the scripts' 50 MB scaled to the bodies of
\* the model (new.py line 44).
MAX_FILE_SIZE_BYTES == 1

\* ------------------------------------------------------------------------
\* Configuration of the scripts
\* ------------------------------------------------------------------------

REMOTE_BASE_URL ==
    <<"h","t","t","p","s",":","/","/","y","a","-","m","a","h","d","i",".","n","e","t",
      "/","a","p","p","s","_","a","u","d","i","o","/">>

DEST_DIR == <<"a","p","p","s","_","a","u","d","i","o">>

EXTENSIONS ==
    { <<".","m","p","3">>, <<".","m","4","a">>, <<".","p","n","g">>,
      <<".","j","p","g">>, <<".","j","p","e","g">> }

MAX_RETRIES == 3

SKIP_IF_SAME_SIZE == TRUE

\* remote_size when the size is unknown (Python's None); a known size is >= 0.
None == -1

\* ------------------------------------------------------------------------
\* Strings
\* ------------------------------------------------------------------------

Range(s) == { s[i] : i \in DOMAIN s }

Min(a, b) == IF a <= b THEN a ELSE b

\* s[i:j] of Python for 0 <= i, with j clipped to len(s).
Slice(s, i, j) == SubSeq(s, i + 1, Min(j, Len(s)))

\* s[i:]
From(s, i) == SubSeq(s, i + 1, Len(s))

startswith(s, p) == Len(s) >= Len(p) /\ SubSeq(s, 1, Len(p)) = p

endswith(s, p) == Len(s) >= Len(p) /\ SubSeq(s, Len(s) - Len(p) + 1, Len(s)) = p

\* str.find: the lowest 0-based index where p occurs in s, or -1.
find(s, p) ==
    LET hits == { i \in 0..(Len(s) - Len(p)) : SubSeq(s, i + 1, i + Len(p)) = p }
    IN  IF hits = {} THEN -1 ELSE CHOOSE i \in hits : \A j \in hits : i <= j

\* str.rfind of one character: the highest 0-based index, or -1.
rfind(s, c) ==
    LET hits == { i \in 0..(Len(s) - 1) : s[i + 1] = c }
    IN  IF hits = {} THEN -1 ELSE CHOOSE i \in hits : \A j \in hits : i >= j

RECURSIVE split(_, _)
\* str.split(c): the pieces between the occurrences of the character c.
split(s, c) ==
    LET i == find(s, <<c>>)
    IN  IF i = -1 THEN <<s>> ELSE <<Slice(s, 0, i)>> \o split(From(s, i + 1), c)

RECURSIVE join(_, _)
\* c.join(parts)
join(parts, c) ==
    IF parts = <<>> THEN <<>>
    ELSE IF Len(parts) = 1 THEN parts[1]
    ELSE parts[1] \o <<c>> \o join(Tail(parts), c)

UpperChars ==
    <<"A","B","C","D","E","F","G","H","I","J","K","L","M",
      "N","O","P","Q","R","S","T","U","V","W","X","Y","Z">>

LowerChars ==
    <<"a","b","c","d","e","f","g","h","i","j","k","l","m",
      "n","o","p","q","r","s","t","u","v","w","x","y","z">>

LowerChar(c) ==
    IF \E i \in DOMAIN UpperChars : UpperChars[i] = c
    THEN LowerChars[CHOOSE i \in DOMAIN UpperChars : UpperChars[i] = c]
    ELSE c

\* str.lower
lower(s) == [ i \in DOMAIN s |-> LowerChar(s[i]) ]

RECURSIVE lstrip(_, _)
\* str.lstrip(c) for one character c
lstrip(s, c) == IF s # <<>> /\ s[1] = c THEN lstrip(Tail(s), c) ELSE s

RECURSIVE SelectNonEmpty(_)
\* filter(None, parts): the non-empty pieces, in order.
SelectNonEmpty(parts) ==
    IF parts = <<>> THEN <<>>
    ELSE IF parts[1] = <<>> THEN SelectNonEmpty(Tail(parts))
    ELSE <<parts[1]>> \o SelectNonEmpty(Tail(parts))

\* ------------------------------------------------------------------------
\* urllib.parse, as far as the scripts use it
\* ------------------------------------------------------------------------

SchemeChars ==
    Range(UpperChars) \cup Range(LowerChars)
        \cup {"0","1","2","3","4","5","6","7","8","9","+","-","."}

IsAlpha(c) == c \in Range(UpperChars) \cup Range(LowerChars)

\* urlsplit(url, scheme=default): [scheme, netloc, path].
urlparse(url, default) ==
    LET i == find(url, <<":">>)
        hasScheme == /\ i > 0
                     /\ IsAlpha(url[1])
                     /\ \A k \in 1..i : url[k] \in SchemeChars
        scheme == IF hasScheme THEN lower(Slice(url, 0, i)) ELSE default
        rest == IF hasScheme THEN From(url, i + 1) ELSE url
        hasNetloc == startswith(rest, <<"/","/">>)
        afterSlashes == From(rest, 2)
        j == find(afterSlashes, <<"/">>)
        netloc == IF ~hasNetloc THEN <<>>
                  ELSE IF j = -1 THEN afterSlashes ELSE Slice(afterSlashes, 0, j)
        path == IF ~hasNetloc THEN rest
                ELSE IF j = -1 THEN <<>> ELSE From(afterSlashes, j)
    IN  [scheme |-> scheme, netloc |-> netloc, path |-> path]

UsesRelative == { <<"h","t","t","p">>, <<"h","t","t","p","s">> }

\* urlunsplit of (scheme, netloc, path)
urlunparse(scheme, netloc, path) ==
    LET p1 == IF netloc # <<>>
                 \/ (scheme # <<>> /\ scheme \in UsesRelative
                        /\ ~startswith(path, <<"/","/">>))
              THEN <<"/","/">> \o netloc
                     \o (IF path # <<>> /\ path[1] # "/" THEN <<"/">> \o path ELSE path)
              ELSE path
    IN  IF scheme # <<>> THEN scheme \o <<":">> \o p1 ELSE p1

RECURSIVE ResolveDots(_, _)
\* The loop of urljoin over the segments: '..' pops (an empty stack stays
\* empty), '.' is skipped, anything else is appended.
ResolveDots(segments, resolved) ==
    IF segments = <<>> THEN resolved
    ELSE LET seg == segments[1]
         IN  IF seg = <<".",".">>
             THEN ResolveDots(Tail(segments),
                              IF resolved = <<>> THEN <<>>
                              ELSE SubSeq(resolved, 1, Len(resolved) - 1))
             ELSE IF seg = <<".">>
             THEN ResolveDots(Tail(segments), resolved)
             ELSE ResolveDots(Tail(segments), Append(resolved, seg))

\* base_parts of urljoin: the base path's pieces, without the last one when
\* it is not a directory.
BaseParts(bpath) ==
    LET bp0 == split(bpath, "/")
    IN  IF bp0[Len(bp0)] # <<>> THEN SubSeq(bp0, 1, Len(bp0) - 1) ELSE bp0

\* segments[1:-1] = filter(None, segments[1:-1])
FilterInner(joined) ==
    IF Len(joined) <= 2 THEN joined
    ELSE <<joined[1]>> \o SelectNonEmpty(SubSeq(joined, 2, Len(joined) - 1))
           \o <<joined[Len(joined)]>>

\* segments of urljoin
Segments(bpath, path) ==
    IF startswith(path, <<"/">>) THEN split(path, "/")
    ELSE FilterInner(BaseParts(bpath) \o split(path, "/"))

\* '/'.join(resolved_path) or '/'
ResolvedPath(segments) ==
    LET resolved0 == ResolveDots(segments, <<>>)
        rpath == join(IF segments[Len(segments)] \in { <<".">>, <<".",".">> }
                      THEN Append(resolved0, <<>>) ELSE resolved0, "/")
    IN  IF rpath = <<>> THEN <<"/">> ELSE rpath

\* urljoin once both URLs are parsed
JoinParsed(b, u, url) ==
    IF u.scheme # b.scheme \/ u.scheme \notin UsesRelative THEN url
    ELSE IF u.netloc # <<>> THEN urlunparse(u.scheme, u.netloc, u.path)
    ELSE IF u.path = <<>> THEN urlunparse(u.scheme, b.netloc, b.path)
    ELSE urlunparse(u.scheme, b.netloc, ResolvedPath(Segments(b.path, u.path)))

\* urllib.parse.urljoin(base, url)
urljoin(base, url) ==
    IF base = <<>> THEN url
    ELSE IF url = <<>> THEN base
    ELSE JoinParsed(urlparse(base, <<>>), urlparse(url, urlparse(base, <<>>).scheme), url)

\* os.path.splitext(p)[1]: the extension of the last component, leading dots
\* of the component not counted.
splitext_ext(p) ==
    LET sepIndex == rfind(p, "/")
        dotIndex == rfind(p, ".")
    IN  IF dotIndex > sepIndex
           /\ \E k \in (sepIndex + 1)..(dotIndex - 1) : p[k + 1] # "."
        THEN From(p, dotIndex)
        ELSE <<>>

\* ------------------------------------------------------------------------
\* os.path (posixpath), as far as the scripts use it
\* ------------------------------------------------------------------------

\* os.path.basename(p)
basename(p) == From(p, rfind(p, "/") + 1)

RECURSIVE rstrip(_, _)
\* str.rstrip(c) for one character c
rstrip(s, c) ==
    IF s # <<>> /\ s[Len(s)] = c THEN rstrip(SubSeq(s, 1, Len(s) - 1), c) ELSE s

\* os.path.dirname(p)
dirname(p) ==
    LET head == Slice(p, 0, rfind(p, "/") + 1)
    IN  IF head # <<>> /\ \E k \in DOMAIN head : head[k] # "/"
        THEN rstrip(head, "/") ELSE head

\* os.path.join(a, b)
path_join(a, b) ==
    IF startswith(b, <<"/">>) THEN b
    ELSE IF a = <<>> \/ endswith(a, <<"/">>) THEN a \o b
    ELSE a \o <<"/">> \o b

RECURSIVE NormComps(_, _, _)
\* The loop of normpath over the components: '' and '.' are skipped, '..'
\* pops a component unless there is none to pop.
NormComps(comps, new_comps, initial_slashes) ==
    IF comps = <<>> THEN new_comps
    ELSE LET comp == comps[1]
         IN  IF comp = <<>> \/ comp = <<".">>
             THEN NormComps(Tail(comps), new_comps, initial_slashes)
             ELSE IF \/ comp # <<".",".">>
                     \/ (initial_slashes = 0 /\ new_comps = <<>>)
                     \/ (new_comps # <<>> /\ new_comps[Len(new_comps)] = <<".",".">>)
             THEN NormComps(Tail(comps), Append(new_comps, comp), initial_slashes)
             ELSE IF new_comps # <<>>
             THEN NormComps(Tail(comps), SubSeq(new_comps, 1, Len(new_comps) - 1),
                            initial_slashes)
             ELSE NormComps(Tail(comps), new_comps, initial_slashes)

\* os.path.normpath(path)
normpath(path) ==
    LET initial_slashes ==
            IF ~startswith(path, <<"/">>) THEN 0
            ELSE IF startswith(path, <<"/","/">>) /\ ~startswith(path, <<"/","/","/">>)
            THEN 2 ELSE 1
        body == join(NormComps(split(path, "/"), <<>>, initial_slashes), "/")
        out == [ k \in 1..initial_slashes |-> "/" ] \o body
    IN  IF path = <<>> \/ out = <<>> THEN <<".">> ELSE out

\* The marker of the mirror root in a remote path.
MirrorMarker == <<"/","a","p","p","s","_","a","u","d","i","o","/">>

\* relpath_in_dest(url): the remote path after the first "/apps_audio/", or
\* its basename when the marker does not occur; leading slashes stripped.
relpath_in_dest(u) ==
    LET path == urlparse(u, <<>>).path
        idx == find(path, MirrorMarker)
    IN  lstrip(IF idx # -1 THEN From(path, idx + Len(MirrorMarker)) ELSE basename(path), "/")

\* dest_path of main: os.path.normpath(os.path.join(DEST_DIR, rel))
DestPath(u) == normpath(path_join(DEST_DIR, relpath_in_dest(u)))

\* TmpPath of a download that writes straight to dest_path
TmpPath_InPlace(dest_path) == dest_path

\* tmp_path of download_file
TmpPath(dest_path) == dest_path \o <<".","p","a","r","t">>

\* ------------------------------------------------------------------------
\* The remote site
\* ------------------------------------------------------------------------

SubUrl == REMOTE_BASE_URL \o <<"s","u","b","/">>

\* The URL of the server's top directory, the parent of the root.
TopUrl == <<"h","t","t","p","s",":","/","/","y","a","-","m","a","h","d","i",".","n","e","t","/">>

\* The directory URLs the server answers with a listing page; a GET of any
\* other URL fails (404), and a GET of these may fail too.
ServedDirs == { REMOTE_BASE_URL, SubUrl }

\* The href attributes that occur on listing pages:
\*   a.MP3  sub/  ../  /  c.txt  /apps_audio/  ../../
HrefPool ==
    { <<"a",".","M","P","3">>,
      <<"s","u","b","/">>,
      <<".",".","/">>,
      <<"/">>,
      <<"c",".","t","x","t">>,
      <<"/","a","p","p","s","_","a","u","d","i","o","/">>,
      <<".",".","/",".",".","/">> }

RECURSIVE SeqsUpTo(_, _)
\* The sequences over S of length at most n.
SeqsUpTo(S, n) ==
    IF n = 0 THEN { <<>> }
    ELSE LET shorter == SeqsUpTo(S, n - 1)
         IN  shorter \cup { Append(q, x) : q \in { r \in shorter : Len(r) = n - 1 }, x \in S }

\* The pages the server may answer with: the anchors in document order.
Pages == SeqsUpTo(HrefPool, MaxAnchors)

\* session.get(url) raised, or raise_for_status() did.
GetFailed == [ok |-> FALSE, anchors |-> <<>>]

\* The outcomes of session.get(url) followed by raise_for_status(): an error,
\* or a page of at most n anchors.
Responses ==
    [ n \in 0..MaxAnchors |->
        { GetFailed } \cup { [ok |-> TRUE, anchors |-> p] : p \in { q \in Pages : Len(q) <= n } } ]

\* The candidate file URLs of the model:
\*   <root>a.mp3   <root>sub/b.jpg   <root>c.png   https://o.net/a.mp3
\* The last one has no "/apps_audio/" in its path, so that its local path is
\* that of the first.
CandidateUrls ==
    { REMOTE_BASE_URL \o <<"a",".","m","p","3">>,
      REMOTE_BASE_URL \o <<"s","u","b","/","b",".","j","p","g">>,
      <<"h","t","t","p","s",":","/","/","o",".","n","e","t","/","a",".","m","p","3">> }

\* The bodies the server sends, and the contents files have from earlier
\* runs: the chunks of the two are told apart.
RemoteBodies == SeqsUpTo({ "x" }, MaxBody)

OldContents == SeqsUpTo({ "o" }, MaxBody)

DigitChars == <<"0","1","2","3","4","5","6","7","8","9">>

\* The Content-Length header values of the model: absent, empty, not a
\* number, or the decimal of a size.
LengthHeaders ==
    { [present |-> FALSE, value |-> <<>>],
      [present |-> TRUE, value |-> <<>>],
      [present |-> TRUE, value |-> <<"x">>] }
    \cup { [present |-> TRUE, value |-> <<DigitChars[n + 1]>>] : n \in 0..MaxBody }

\* The outcomes of a HEAD or a streaming GET of a file URL: an exception, or
\* a status and a Content-Length header.
SizeResponses ==
    { [err |-> TRUE, status |-> 0, cl |-> [present |-> FALSE, value |-> <<>>]] }
    \cup { [err |-> FALSE, status |-> st, cl |-> h] : st \in { 200, 404 }, h \in LengthHeaders }

\* ------------------------------------------------------------------------
\* State
\* ------------------------------------------------------------------------

VARIABLES
    site,        \* what the server answered for each URL GET so far
    to_visit,    \* walk_remote: the frontier queue
    seen_dirs,   \* walk_remote: the visited set
    files,       \* walk_remote: the candidate file URLs, in discovery order
    url,         \* walk_remote: the URL dequeued in the current iteration
    wpc,         \* walk_remote: "loop", "fetch" or "done"
    fetched,     \* the URLs passed to get_remote_index
    refetched    \* the URLs passed to get_remote_index more than once

VARIABLES
    script,      \* which script runs: "new" (new.py) or "dap" (download_and_push.py)
    remote,      \* the body the server sends for each candidate URL
    fs,          \* the local files: path -> content (a sequence of chunks)
    dirs,        \* the local directories
    d_url,       \* download_file: url
    d_dest,      \* download_file: dest_path
    remote_size, \* download_file: remote_size
    attempt,     \* download_file: attempt of the retry loop, 0 before the loop
    dpc,         \* download_file: "idle", "call", "size", "attempt", "write",
                 \*                "replace" or "returned"
    d_result,    \* download_file: "none", "True", "False", or "raised"
    d_reason,    \* the message printed with the result: "too-large",
                 \*   "same-size", "downloaded", "failed"; "raised"; "" before
    sleeps,      \* the delays of time.sleep during the call, in order
    installs,    \* the os.replace calls of the call that succeeded
    fs0,         \* fs when download_file was called
    dirs0        \* dirs when download_file was called

walkVars == <<site, to_visit, seen_dirs, files, url, wpc, fetched, refetched>>

dlVars == <<script, remote, fs, dirs, d_url, d_dest, remote_size, attempt, dpc,
            d_result, d_reason, sleeps, installs, fs0, dirs0>>

VARIABLES
    remote_files,                \* main: the candidates the walk returned
    next_file,                   \* main: how many candidates the loop has taken
    mpc,                         \* where main, or commit_and_push_in_batches, is
    pre_size,                    \* main: remote_size of the pre-check
    downloaded_paths_for_batch,  \* main: the in-progress batch
    total_downloaded,            \* main: the count of successful downloads
    batch_count,                 \* main: the number of the last batch flushed
    all_downloaded_paths,        \* main: every path downloaded, in order
    file_list,                   \* commit_and_push_in_batches: its argument
    batch_start,                 \* commit_and_push_in_batches: i of its loop
    git_log                      \* the batches handed to git add, in order

VARIABLES
    cpc,         \* main after the loop: "idle" before generate_csv, "csv" once
                 \*   the manifest is written, "status" once get_changed_files
                 \*   of download_and_push.py returned, "exit" after "Done.",
                 \*   "raised" when an exception left main
    csv,         \* the manifest file generate_csv wrote
    changed,     \* main: what get_changed_files returned
    csv_log,     \* the git commands run after the loop, in order
    changed_local_paths  \* main of download_and_push.py: the dest_path of
                 \*   every download that returned True, in order

tailVars == <<cpc, csv, changed, csv_log, changed_local_paths>>

VARIABLES
    s_head,      \* get_remote_size: what the server answers to the HEAD
    s_get,       \* get_remote_size: what the server answers to the GET
    spc,         \* get_remote_size: "idle", "call", "fallback", "returned"
                 \*   or "raised"
    s_result,    \* get_remote_size: the value returned
    s_requests,  \* get_remote_size: the requests issued, in order
    s_open       \* the responses get_remote_size opened that are still open

sizeVars == <<s_head, s_get, spc, s_result, s_requests, s_open>>

mainVars == <<remote_files, next_file, mpc, pre_size, downloaded_paths_for_batch,
              total_downloaded, batch_count, all_downloaded_paths, file_list,
              batch_start, git_log, tailVars, sizeVars>>

vars == <<walkVars, dlVars, mainVars>>

\* ------------------------------------------------------------------------
\* Remote Index Fetcher and Tree Walker
\* ------------------------------------------------------------------------

ParentAnchors == { <<".",".","/">>, <<"/">> }

RECURSIVE get_remote_index_KeepParent(_)
\* get_remote_index without the test of the literal '../' and '/'.
get_remote_index_KeepParent(resp) ==
    IF ~resp.ok \/ resp.anchors = <<>> THEN <<>>
    ELSE <<resp.anchors[1]>> \o get_remote_index_KeepParent([resp EXCEPT !.anchors = Tail(@)])

RECURSIVE get_remote_index(_)
\* The hrefs of a response: none when the GET failed, else every anchor's
\* href but the literal '../' and '/'.
get_remote_index(resp) ==
    IF ~resp.ok \/ resp.anchors = <<>> THEN <<>>
    ELSE LET href == resp.anchors[1]
             rest == get_remote_index([resp EXCEPT !.anchors = Tail(@)])
         IN  IF href \in ParentAnchors THEN rest ELSE <<href>> \o rest

\* Whether walk_remote takes the resolved link for a candidate file.
IsCandidate(full) ==
    lower(splitext_ext(urlparse(full, <<>>).path)) \in EXTENSIONS

RECURSIVE WalkHrefs_CaseSensitive(_, _, _, _)
\* WalkHrefs comparing the extension without lower().
WalkHrefs_CaseSensitive(u, hrefs, q, f) ==
    IF hrefs = <<>> THEN [to_visit |-> q, files |-> f]
    ELSE LET href == hrefs[1]
             full == urljoin(u, href)
         IN  IF endswith(href, <<"/">>)
             THEN WalkHrefs_CaseSensitive(u, Tail(hrefs), Append(q, full), f)
             ELSE IF splitext_ext(urlparse(full, <<>>).path) \in EXTENSIONS
             THEN WalkHrefs_CaseSensitive(u, Tail(hrefs), q, Append(f, full))
             ELSE WalkHrefs_CaseSensitive(u, Tail(hrefs), q, f)

RECURSIVE WalkHrefs(_, _, _, _)
\* The for loop of walk_remote over the hrefs of the page at u, from the
\* queue q and the file list f: [to_visit, files] after it.
WalkHrefs(u, hrefs, q, f) ==
    IF hrefs = <<>> THEN [to_visit |-> q, files |-> f]
    ELSE LET href == hrefs[1]
             full == urljoin(u, href)
         IN  IF endswith(href, <<"/">>)
             THEN WalkHrefs(u, Tail(hrefs), Append(q, full), f)
             ELSE IF IsCandidate(full)
             THEN WalkHrefs(u, Tail(hrefs), q, Append(f, full))
             ELSE WalkHrefs(u, Tail(hrefs), q, f)

\* walk_remote is called: to_visit = [base_url], seen_dirs = set(), files = []
WalkStart ==
    /\ site = << >>
    /\ to_visit = <<REMOTE_BASE_URL>>
    /\ seen_dirs = {}
    /\ files = <<>>
    /\ url = <<>>
    /\ wpc = "loop"
    /\ fetched = {}
    /\ refetched = {}

\* WalkPop without the test of the visited set.
WalkPop_NoSeenTest ==
    /\ wpc = "loop"
    /\ to_visit # <<>>
    /\ url' = Head(to_visit)
    /\ to_visit' = Tail(to_visit)
    /\ wpc' = "fetch"
    /\ seen_dirs' = seen_dirs \cup { Head(to_visit) }
    /\ UNCHANGED <<site, files, fetched, refetched>>
    /\ UNCHANGED <<dlVars, mainVars>>

\* WalkPop reading the head of the queue without removing it.
WalkPop_NoPop ==
    /\ wpc = "loop"
    /\ to_visit # <<>>
    /\ url' = Head(to_visit)
    /\ UNCHANGED to_visit
    /\ IF Head(to_visit) \in seen_dirs
       THEN /\ wpc' = "loop"
            /\ UNCHANGED seen_dirs
       ELSE /\ wpc' = "fetch"
            /\ seen_dirs' = seen_dirs \cup { Head(to_visit) }
    /\ UNCHANGED <<site, files, fetched, refetched>>
    /\ UNCHANGED <<dlVars, mainVars>>

\* url = to_visit.pop(0); if url in seen_dirs: continue; seen_dirs.add(url)
WalkPop ==
    /\ wpc = "loop"
    /\ to_visit # <<>>
    /\ url' = Head(to_visit)
    /\ to_visit' = Tail(to_visit)
    /\ IF Head(to_visit) \in seen_dirs
       THEN /\ wpc' = "loop"
            /\ UNCHANGED seen_dirs
       ELSE /\ wpc' = "fetch"
            /\ seen_dirs' = seen_dirs \cup { Head(to_visit) }
    /\ UNCHANGED <<site, files, fetched, refetched>>
    /\ UNCHANGED <<dlVars, mainVars>>

RECURSIVE AnchorsServed(_, _)
\* The anchors on the pages served for the URLs of D.
AnchorsServed(st, D) ==
    IF D = {} THEN 0
    ELSE LET u == CHOOSE x \in D : TRUE
         IN  Len(st[u].anchors) + AnchorsServed(st, D \ { u })

\* What the server may answer for u: a URL asked before gets the same answer,
\* a served directory a page within the site's anchors or an error, any other
\* URL an error.
Answers(u) ==
    IF u \in DOMAIN site THEN { site[u] }
    ELSE IF u \in ServedDirs
    THEN Responses[MaxAnchors - AnchorsServed(site, DOMAIN site)]
    ELSE { GetFailed }

\* hrefs = get_remote_index(url) and the for loop over hrefs
WalkList ==
    /\ wpc = "fetch"
    /\ \E resp \in Answers(url) :
         /\ site' = (url :> resp) @@ site
         /\ to_visit' = WalkHrefs(url, get_remote_index(resp), to_visit, files).to_visit
         /\ files' = WalkHrefs(url, get_remote_index(resp), to_visit, files).files
    /\ fetched' = fetched \cup { url }
    /\ refetched' = IF url \in fetched THEN refetched \cup { url } ELSE refetched
    /\ wpc' = "loop"
    /\ UNCHANGED <<seen_dirs, url>>
    /\ UNCHANGED <<dlVars, mainVars>>

\* while to_visit: ... return files
WalkReturn ==
    /\ wpc = "loop"
    /\ to_visit = <<>>
    /\ wpc' = "done"
    /\ UNCHANGED <<site, to_visit, seen_dirs, files, url, fetched, refetched>>
    /\ UNCHANGED <<dlVars, mainVars>>

WalkNext == WalkPop \/ WalkList \/ WalkReturn

\* ------------------------------------------------------------------------
\* Size Oracle
\* ------------------------------------------------------------------------

IsDigits(v) == v # <<>> /\ \A k \in DOMAIN v : \E d \in DOMAIN DigitChars : DigitChars[d] = v[k]

RECURSIVE IntOf(_)
\* int(v) for a string of decimal digits
IntOf(v) ==
    IF v = <<>> THEN 0
    ELSE 10 * IntOf(SubSeq(v, 1, Len(v) - 1))
           + (CHOOSE d \in 0..9 : DigitChars[d + 1] = v[Len(v)])

\* cl = r.headers.get("Content-Length"); if cl: return int(cl)
\* None when the header is absent or empty, or int() raises.
LengthOf(resp) ==
    IF resp.cl.present /\ resp.cl.value # <<>> /\ IsDigits(resp.cl.value)
    THEN IntOf(resp.cl.value) ELSE None

\* The header-only request of get_remote_size: the length when the HEAD
\* answered 200 with a usable Content-Length, else None.
HeadSize(head) ==
    IF ~head.err /\ head.status = 200 THEN LengthOf(head) ELSE None

\* The fallback of get_remote_size: the length when the streaming GET passed
\* raise_for_status with a usable Content-Length, else None.
FallbackSize(get) ==
    IF ~get.err /\ get.status < 400 THEN LengthOf(get) ELSE None

\* get_remote_size(url), the HEAD answering head and the GET, if issued, get.
get_remote_size(head, get) ==
    IF HeadSize(head) # None THEN HeadSize(head) ELSE FallbackSize(get)

\* What get_remote_size may return for a file URL, over the answers of the
\* server to its HEAD and its GET.
RemoteSizes == { get_remote_size(head, get) : head \in SizeResponses, get \in SizeResponses }

\* No call of get_remote_size is followed step by step.
SizeIdle ==
    /\ s_head = [err |-> TRUE, status |-> 0, cl |-> [present |-> FALSE, value |-> <<>>]]
    /\ s_get = [err |-> TRUE, status |-> 0, cl |-> [present |-> FALSE, value |-> <<>>]]
    /\ spc = "idle"
    /\ s_result = None
    /\ s_requests = <<>>
    /\ s_open = {}

\* get_remote_size(url) is called; the server will answer s_head to the HEAD
\* and s_get to the GET.
SizeCall ==
    /\ s_head \in SizeResponses
    /\ s_get \in SizeResponses
    /\ spc = "call"
    /\ s_result = None
    /\ s_requests = <<>>
    /\ s_open = {}

\* "if cl: return int(cl)" raises ValueError for a header that is not a number.
IntRaises(resp) == resp.cl.present /\ resp.cl.value # <<>> /\ ~IsDigits(resp.cl.value)

\* What the first try block raises: the exception of session.head, or the
\* ValueError of int(cl) after a 200; "" when nothing is raised.
HeadRaises(head) ==
    IF head.err THEN "RequestException"
    ELSE IF head.status = 200 /\ IntRaises(head) THEN "ValueError"
    ELSE ""

\* What the second try block raises: the exception of session.get, the
\* HTTPError of raise_for_status, or the ValueError of int(cl).
GetRaises(get) ==
    IF get.err THEN "RequestException"
    ELSE IF get.status >= 400 THEN "HTTPError"
    ELSE IF IntRaises(get) THEN "ValueError"
    ELSE ""

\* Caught for "except requests.RequestException"
Caught_RequestsOnly(exc) == exc \in { "RequestException", "HTTPError" }

\* "except Exception: pass" catches each of the three.
Caught(exc) == exc \in { "RequestException", "HTTPError", "ValueError" }

\* The first try block: r = session.head(url, allow_redirects=True); after a
\* 200 with a Content-Length the length is returned; an exception is passed
\* over, and everything else goes on to the fallback.  The response of a
\* HEAD is read as it arrives and holds no connection.
SizeHead ==
    /\ spc = "call"
    /\ s_requests' = Append(s_requests, "HEAD")
    /\ IF HeadRaises(s_head) # ""
       THEN /\ spc' = IF Caught(HeadRaises(s_head)) THEN "fallback" ELSE "raised"
            /\ UNCHANGED s_result
       ELSE IF HeadSize(s_head) # None
       THEN /\ spc' = "returned"
            /\ s_result' = HeadSize(s_head)
       ELSE /\ spc' = "fallback"
            /\ UNCHANGED s_result
    /\ UNCHANGED <<s_head, s_get, s_open>>
    /\ UNCHANGED <<walkVars, dlVars>>
    /\ UNCHANGED <<remote_files, next_file, mpc, pre_size, downloaded_paths_for_batch,
                   total_downloaded, batch_count, all_downloaded_paths, file_list,
                   batch_start, git_log, tailVars>>

\* The responses open when the fallback returns: session.get(url,
\* stream=True) holds its connection until the response is closed or its
\* body read, and get_remote_size does neither; the response is released
\* only when the runtime has collected it by then.
StreamLeftOpen(collected) ==
    IF s_get.err \/ collected THEN {} ELSE { "GET" }

\* The second try block: r = session.get(url, stream=True),
\* r.raise_for_status(), the length of the header if there is one; then
\* "return None".
SizeGet ==
    /\ spc = "fallback"
    /\ s_requests' = Append(s_requests, "GET")
    /\ IF GetRaises(s_get) # "" /\ ~Caught(GetRaises(s_get))
       THEN /\ spc' = "raised"
            /\ UNCHANGED s_result
       ELSE /\ spc' = "returned"
            /\ s_result' = FallbackSize(s_get)
    /\ \E collected \in BOOLEAN : s_open' = StreamLeftOpen(collected)
    /\ UNCHANGED <<s_head, s_get>>
    /\ UNCHANGED <<walkVars, dlVars>>
    /\ UNCHANGED <<remote_files, next_file, mpc, pre_size, downloaded_paths_for_batch,
                   total_downloaded, batch_count, all_downloaded_paths, file_list,
                   batch_start, git_log, tailVars>>

SizeNext == SizeHead \/ SizeGet

\* ------------------------------------------------------------------------
\* Incremental Downloader
\* ------------------------------------------------------------------------

RECURSIVE Ancestors(_)
\* The directories os.makedirs(p) makes sure of: p and the directories above.
Ancestors(p) ==
    IF p = <<>> THEN {}
    ELSE IF dirname(p) = p THEN { p }
    ELSE { p } \cup Ancestors(dirname(p))

\* fs with the file at path holding content
WriteFile(f, path, content) ==
    [ q \in DOMAIN f \cup { path } |-> IF q = path THEN content ELSE f[q] ]

\* os.replace(src, dst) on fs
ReplaceFile(f, src, dst) ==
    [ q \in (DOMAIN f \ { src }) \cup { dst } |-> IF q = dst THEN f[src] ELSE f[q] ]

\* TooLarge taking an unknown size for one above the maximum
TooLarge_UnknownIsLarge(size) ==
    script = "new" /\ (size = None \/ size > MAX_FILE_SIZE_BYTES)

\* TooLarge with >= for >
TooLarge_AtLeast(size) == script = "new" /\ size # None /\ size >= MAX_FILE_SIZE_BYTES

\* if remote_size is not None and remote_size > MAX_FILE_SIZE_BYTES
\* (new.py only: download_and_push.py has no such test)
TooLarge(size) == script = "new" /\ size # None /\ size > MAX_FILE_SIZE_BYTES

\* SameSize with < for ==
SameSize_Shorter(f, dest_path, size) ==
    /\ SKIP_IF_SAME_SIZE
    /\ dest_path \in DOMAIN f
    /\ size # None
    /\ Len(f[dest_path]) < size

\* SameSize with the same-size skip switched off
SameSize_Disabled(f, dest_path, size) ==
    /\ ~SKIP_IF_SAME_SIZE
    /\ dest_path \in DOMAIN f
    /\ size # None
    /\ Len(f[dest_path]) = size

\* if SKIP_IF_SAME_SIZE and os.path.exists(dest_path) and remote_size is not None:
\*     if os.path.getsize(dest_path) == remote_size
SameSize(f, dest_path, size) ==
    /\ SKIP_IF_SAME_SIZE
    /\ dest_path \in DOMAIN f
    /\ size # None
    /\ Len(f[dest_path]) = size

\* download_file returns result, having printed the message of reason.
Return(result, reason) ==
    /\ d_result' = result
    /\ d_reason' = reason
    /\ dpc' = "returned"

\* LastAttempt for a loop over range(1, MAX_RETRIES)
LastAttempt_OneFewer(k) == k >= MAX_RETRIES - 1

\* for attempt in range(1, MAX_RETRIES + 1): whether attempt k is the last
LastAttempt(k) == k >= MAX_RETRIES

\* The except clause of the retry loop: the delay, then the next attempt, or
\* "Failed to download after retries" and return False.
AttemptFails ==
    /\ sleeps' = Append(sleeps, 2 ^ attempt)
    /\ IF LastAttempt(attempt)
       THEN /\ Return("False", "failed")
            /\ UNCHANGED attempt
       ELSE /\ attempt' = attempt + 1
            /\ dpc' = "attempt"
            /\ UNCHANGED <<d_result, d_reason>>

\* ensure_dir(os.path.dirname(dest_path)): the directory and those above it
\* are made unless it is there; os.makedirs may raise, and raises for ''.
DlEnsureDir ==
    /\ dpc = "call"
    /\ LET d == dirname(d_dest)
       IN  \/ /\ d \in dirs
              /\ dpc' = "size"
              /\ UNCHANGED <<dirs, d_result, d_reason>>
           \/ /\ d \notin dirs
              /\ d # <<>>
              /\ dirs' = dirs \cup Ancestors(d)
              /\ dpc' = "size"
              /\ UNCHANGED <<d_result, d_reason>>
           \/ /\ d \notin dirs
              /\ Return("raised", "raised")
              /\ UNCHANGED dirs
    /\ UNCHANGED <<script, remote, fs, d_url, d_dest, remote_size, attempt,
                   sleeps, installs, fs0, dirs0>>
    /\ UNCHANGED <<walkVars, mainVars>>

\* remote_size = get_remote_size(url) and the two tests that skip the file
DlSize ==
    /\ dpc = "size"
    /\ \E size \in RemoteSizes :
         /\ remote_size' = size
         /\ IF TooLarge(size)
            THEN /\ Return("False", "too-large")
                 /\ UNCHANGED attempt
            ELSE IF SameSize(fs, d_dest, size)
            THEN /\ Return("False", "same-size")
                 /\ UNCHANGED attempt
            ELSE /\ attempt' = 1
                 /\ dpc' = "attempt"
                 /\ UNCHANGED <<d_result, d_reason>>
    /\ UNCHANGED <<script, remote, fs, dirs, d_url, d_dest, sleeps, installs, fs0, dirs0>>
    /\ UNCHANGED <<walkVars, mainVars>>

\* session.get(url, stream=True), r.raise_for_status() and
\* open(tmp_path, "wb"): the temporary file is created empty, unless one of
\* the three raises.
DlGet ==
    /\ dpc = "attempt"
    /\ \/ /\ fs' = WriteFile(fs, TmpPath(d_dest), <<>>)
          /\ dpc' = "write"
          /\ UNCHANGED <<attempt, d_result, d_reason, sleeps>>
       \/ /\ AttemptFails
          /\ UNCHANGED fs
    /\ UNCHANGED <<script, remote, dirs, d_url, d_dest, remote_size, installs, fs0, dirs0>>
    /\ UNCHANGED <<walkVars, mainVars>>

\* One step of "for chunk in r.iter_content(...): f.write(chunk)": the next
\* chunk of the body is appended to the temporary file, or reading or
\* writing raises.
DlWrite ==
    /\ dpc = "write"
    /\ Len(fs[TmpPath(d_dest)]) < Len(remote[d_url])
    /\ \/ /\ fs' = WriteFile(fs, TmpPath(d_dest),
                             Append(fs[TmpPath(d_dest)],
                                    remote[d_url][Len(fs[TmpPath(d_dest)]) + 1]))
          /\ UNCHANGED <<attempt, dpc, d_result, d_reason, sleeps>>
       \/ /\ AttemptFails
          /\ UNCHANGED fs
    /\ UNCHANGED <<script, remote, dirs, d_url, d_dest, remote_size, installs, fs0, dirs0>>
    /\ UNCHANGED <<walkVars, mainVars>>

\* The body is exhausted: the temporary file is closed and
\* os.replace(tmp_path, dest_path) installs it, "Downloaded", return True;
\* or the end of the stream, the close or the rename raises.
DlReplace ==
    /\ dpc = "write"
    /\ Len(fs[TmpPath(d_dest)]) >= Len(remote[d_url])
    /\ \/ /\ fs' = ReplaceFile(fs, TmpPath(d_dest), d_dest)
          /\ installs' = installs + 1
          /\ Return("True", "downloaded")
          /\ UNCHANGED <<attempt, sleeps>>
       \/ /\ AttemptFails
          /\ UNCHANGED <<fs, installs>>
    /\ UNCHANGED <<script, remote, dirs, d_url, d_dest, remote_size, fs0, dirs0>>
    /\ UNCHANGED <<walkVars, mainVars>>

DlNext == DlEnsureDir \/ DlSize \/ DlGet \/ DlWrite \/ DlReplace

\* No download_file call is in progress.
DlIdle ==
    /\ script = "new"
    /\ remote = << >>
    /\ fs = << >>
    /\ dirs = { DEST_DIR }
    /\ d_url = <<>>
    /\ d_dest = <<>>
    /\ remote_size = None
    /\ attempt = 0
    /\ dpc = "idle"
    /\ d_result = "none"
    /\ d_reason = ""
    /\ sleeps = <<>>
    /\ installs = 0
    /\ fs0 = << >>
    /\ dirs0 = { DEST_DIR }

\* The local files a call may find: at dest_path nothing or a file of an
\* earlier run, at tmp_path nothing or what an interrupted run left.
FilesBefore(dest_path) ==
    { << >> }
    \cup { (dest_path :> c) : c \in OldContents }
    \cup { (TmpPath(dest_path) :> <<"o">>) }
    \cup { (dest_path :> c) @@ (TmpPath(dest_path) :> <<"o">>) : c \in OldContents }

\* download_file(url, dest_path) is called, by either script, for a candidate
\* and the dest_path main computes for it; DEST_DIR exists, and so does the
\* directory of every file that exists.
DlCall ==
    /\ script \in { "new", "dap" }
    /\ d_url \in CandidateUrls
    /\ d_dest = DestPath(d_url)
    /\ remote \in [ { d_url } -> RemoteBodies ]
    /\ fs \in FilesBefore(d_dest)
    /\ dirs \in { { DEST_DIR }, { DEST_DIR } \cup Ancestors(dirname(d_dest)) }
    /\ DOMAIN fs # {} => dirname(d_dest) \in dirs
    /\ fs0 = fs
    /\ dirs0 = dirs
    /\ remote_size = None
    /\ attempt = 0
    /\ dpc = "call"
    /\ d_result = "none"
    /\ d_reason = ""
    /\ sleeps = <<>>
    /\ installs = 0

\* ------------------------------------------------------------------------
\* Batch Orchestrator: main of new.py
\* ------------------------------------------------------------------------

\* What the git commands of one batch come to: git add fails; git commit
\* fails, as it does with nothing to commit; git push fails; all succeed.
GitOutcomes == { "add-failed", "nothing-to-commit", "push-failed", "pushed" }

\* UniquePaths without the test for paths seen before
UniquePaths_KeepAll(paths, seen) == [ k \in DOMAIN paths |-> normpath(paths[k]) ]

RECURSIVE UniquePaths(_, _)
\* unique_paths of commit_and_push_batch_for_paths: the normpath of each path,
\* in order, without those already in seen.
UniquePaths(paths, seen) ==
    IF paths = <<>> THEN <<>>
    ELSE LET np == normpath(paths[1])
         IN  IF np \in seen THEN UniquePaths(Tail(paths), seen)
             ELSE <<np>> \o UniquePaths(Tail(paths), seen \cup { np })

\* RelPathsForGit of a loop that hands the batch over last path first
RelPathsForGit_Reversed(paths) == [ k \in DOMAIN paths |-> normpath(paths[Len(paths) + 1 - k]) ]

\* rel_paths_for_git = [os.path.normpath(p) for p in downloaded_paths_for_batch]
RelPathsForGit(paths) == [ k \in DOMAIN paths |-> normpath(paths[k]) ]

\* The exit status each git command of a flush meets, should the flush run
\* it: TRUE for exit 0, FALSE for a non-zero exit (CalledProcessError).
GitExits == [ add : BOOLEAN, commit : BOOLEAN, reset : BOOLEAN, push : BOOLEAN ]

\* run_git(args) as the flush sees it: the command and whether it exited 0.
GitRun(cmd, ok) == [ cmd |-> cmd, ok |-> ok ]

\* The outcome of a flush by the exits of its commands.
Outcome(exits) ==
    IF ~exits.add THEN "add-failed"
    ELSE IF ~exits.commit THEN "nothing-to-commit"
    ELSE IF ~exits.push THEN "push-failed"
    ELSE "pushed"

\* GitCommands of a flush that goes on to commit and push after a failed
\* git add
GitCommands_IgnoreAddFailure(exits) ==
    IF ~exits.commit
    THEN [ cmds   |-> <<GitRun("add", exits.add), GitRun("commit", FALSE),
                        GitRun("reset", exits.reset)>>,
           result |-> FALSE ]
    ELSE [ cmds   |-> <<GitRun("add", exits.add), GitRun("commit", TRUE),
                        GitRun("push", exits.push)>>,
           result |-> exits.push ]

\* The git commands commit_and_push_batch_for_paths runs for a list that is
\* not empty, and what it returns: git add, and return False when it fails;
\* git commit, and when it fails git reset (whose failure is passed over) and
\* return False; git push, and return whether it succeeded.
GitCommands(exits) ==
    IF ~exits.add
    THEN [ cmds |-> <<GitRun("add", FALSE)>>, result |-> FALSE ]
    ELSE IF ~exits.commit
    THEN [ cmds   |-> <<GitRun("add", TRUE), GitRun("commit", FALSE),
                        GitRun("reset", exits.reset)>>,
           result |-> FALSE ]
    ELSE [ cmds   |-> <<GitRun("add", TRUE), GitRun("commit", TRUE),
                        GitRun("push", exits.push)>>,
           result |-> exits.push ]

\* commit_and_push_batch_for_paths(paths, batch_index) for a list that is not
\* empty: unique_paths is handed to git add, then the commit and the push
\* follow as far as the commands succeed.
BatchRecord(paths, batch_index, trailing, total, exits) ==
    [ paths     |-> UniquePaths(paths, {}),
      given     |-> Len(paths),
      index     |-> batch_index,
      trailing  |-> trailing,
      total     |-> total,
      cmds      |-> GitCommands(exits).cmds,
      result    |-> GitCommands(exits).result,
      outcome   |-> Outcome(exits) ]

\* BatchReady with > for >=
BatchReady_Above(batch) == Len(batch) > BATCH_SIZE

\* if len(downloaded_paths_for_batch) >= BATCH_SIZE
BatchReady(batch) == Len(batch) >= BATCH_SIZE

\* AfterFlush of a loop that drops only the oldest path of the batch
AfterFlush_DropFirst(batch) == Tail(batch)

\* AfterFlush of a loop that forgets to empty the batch
AfterFlush_Keep(batch) == batch

\* downloaded_paths_for_batch = []  # reset for next batch
AfterFlush(batch) == <<>>

\* ------------------------------------------------------------------------
\* The end of main of new.py: generate_csv, get_changed_files, CSV sync
\* ------------------------------------------------------------------------

CSV_FILE == <<"a","u","d","i","o","_","l","i","n","k","s",".","c","s","v">>

\* No manifest written.
NoCsv == [ written |-> FALSE, github_repo |-> <<>>, raw_repo |-> <<>>, rows |-> {} ]

\* Before the end of the loop nothing of the tail of main has happened.
TailIdle ==
    /\ cpc = "idle"
    /\ csv = NoCsv
    /\ changed = <<>>
    /\ csv_log = <<>>
    /\ changed_local_paths = <<>>

\* What "git remote get-url origin" answers: a non-zero exit, or the URL of
\* the remote: an scp-like GitHub URL, an https GitHub URL, an https URL of
\* another host.
OriginReplies ==
    { [ ok |-> FALSE, out |-> <<>> ],
      [ ok |-> TRUE, out |-> <<"g","i","t","@","g","i","t","h","u","b",".","c","o","m",":","u","/","r",".","g","i","t">> ],
      [ ok |-> TRUE, out |-> <<"h","t","t","p","s",":","/","/","g","i","t","h","u","b",".","c","o","m","/","u","/","r",".","g","i","t">> ],
      [ ok |-> TRUE, out |-> <<"h","t","t","p","s",":","/","/","o",".","n","e","t","/","u","/","r",".","g","i","t">> ] }

\* path[:-4] if path.endswith(".git")
StripDotGit(path) ==
    IF endswith(path, <<".","g","i","t">>) THEN SubSeq(path, 1, Len(path) - 4) ELSE path

\* get_git_repo_fullname: "unknown/unknown" when the git command failed;
\* else the URL after "git@github.com:", or after "github.com/" of an http(s)
\* URL, or the URL itself, without a final ".git".  url.split("github.com/",
\* 1)[1] of a URL without "github.com/" raises IndexError, outside the try.
get_git_repo_fullname(reply) ==
    IF ~reply.ok
    THEN [ raised |-> FALSE, path |-> <<"u","n","k","n","o","w","n","/","u","n","k","n","o","w","n">> ]
    ELSE IF startswith(reply.out, <<"g","i","t","@","g","i","t","h","u","b",".","c","o","m",":">>)
    THEN [ raised |-> FALSE,
           path |-> StripDotGit(From(reply.out, find(reply.out, <<":">>) + 1)) ]
    ELSE IF startswith(reply.out, <<"h","t","t","p","s",":","/","/">>) \/ startswith(reply.out, <<"h","t","t","p",":","/","/">>)
    THEN IF find(reply.out, <<"g","i","t","h","u","b",".","c","o","m","/">>) = -1
         THEN [ raised |-> TRUE, path |-> <<>> ]
         ELSE [ raised |-> FALSE,
                path |-> StripDotGit(From(reply.out, find(reply.out, <<"g","i","t","h","u","b",".","c","o","m","/">>) + 11)) ]
    ELSE [ raised |-> FALSE, path |-> StripDotGit(reply.out) ]

\* The rows of the manifest: the paths, relative to the mirror directory, of
\* the files under it whose lower-cased name ends with one of EXTENSIONS.
CsvRows(mirror) ==
    { From(p, Len(DEST_DIR) + 1) :
        p \in { q \in DOMAIN mirror :
                  /\ startswith(q, DEST_DIR \o <<"/">>)
                  /\ \E e \in EXTENSIONS : endswith(lower(q), e) } }

\* generate_csv (the same in both scripts): get_git_repo_fullname is called
\* twice, once per link prefix, then the mirror is listed and the manifest
\* written.  An exception of get_git_repo_fullname leaves generate_csv and
\* main before anything is written.
generate_csv ==
    \E r1 \in OriginReplies, r2 \in OriginReplies :
         IF get_git_repo_fullname(r1).raised
         THEN /\ cpc' = "raised"
              /\ csv_log' = <<GitRun("remote get-url", r1.ok)>>
              /\ UNCHANGED csv
         ELSE IF get_git_repo_fullname(r2).raised
         THEN /\ cpc' = "raised"
              /\ csv_log' = <<GitRun("remote get-url", r1.ok), GitRun("remote get-url", r2.ok)>>
              /\ UNCHANGED csv
         ELSE /\ cpc' = "csv"
              /\ csv_log' = <<GitRun("remote get-url", r1.ok), GitRun("remote get-url", r2.ok)>>
              /\ csv' = [ written     |-> TRUE,
                          github_repo |-> get_git_repo_fullname(r1).path,
                          raw_repo    |-> get_git_repo_fullname(r2).path,
                          rows        |-> CsvRows(fs) ]

\* main of new.py after the trailing flush: generate_csv(DEST_DIR, CSV_FILE,
\* REMOTE_BASE_URL).
MainCsv ==
    /\ script = "new"
    /\ mpc = "done"
    /\ cpc = "idle"
    /\ generate_csv
    /\ UNCHANGED <<changed, changed_local_paths>>
    /\ UNCHANGED <<remote_files, next_file, mpc, pre_size, downloaded_paths_for_batch,
                   total_downloaded, batch_count, all_downloaded_paths, file_list,
                   batch_start, git_log>>
    /\ UNCHANGED <<walkVars, dlVars, sizeVars>>

\* str.strip() of a line of blanks and printing characters.
strip(line) == rstrip(lstrip(line, " "), " ")

\* line.split(maxsplit=1): the first field, and what follows the blanks
\* after it.
SplitOnce(line) ==
    LET i == find(line, <<" ">>)
    IN  IF i = -1 THEN <<line>>
        ELSE <<Slice(line, 0, i), lstrip(From(line, i), " ")>>

\* One line of "git status --porcelain": the two status letters XY, a
\* blank, and the path, or "old -> new" for a rename.
StatusLine(xy, text) == xy \o <<" ">> \o text

\* get_changed_files past run_git, out being the lines git status printed:
\* the lines are stripped and the empty ones dropped; each is split once on
\* blanks and, when there are two parts, the second is taken, in order.
get_changed_files(out) ==
    LET stripped == [ k \in DOMAIN out |-> strip(out[k]) ]
        lines    == SelectSeq(stripped, LAMBDA l : l # <<>>)
        parts    == [ k \in DOMAIN lines |-> SplitOnce(lines[k]) ]
        two      == SelectSeq(parts, LAMBDA q : Len(q) = 2)
    IN  [ k \in DOMAIN two |-> two[k][2] ]

\* What "git status --porcelain --untracked-files=all -- audio_links.csv"
\* prints when it exits 0, generate_csv having written the manifest: nothing
\* (unchanged, or ignored); one line for the manifest, untracked, modified
\* or added to the index; or two, the manifest being deleted from the index
\* and, the file on disk, untracked.
CsvStatusOutputs ==
    { <<>>,
      <<StatusLine(<<"?","?">>, CSV_FILE)>>,
      <<StatusLine(<<" ","M">>, CSV_FILE)>>,
      <<StatusLine(<<"M"," ">>, CSV_FILE)>>,
      <<StatusLine(<<"A"," ">>, CSV_FILE)>>,
      <<StatusLine(<<"A","M">>, CSV_FILE)>>,
      <<StatusLine(<<"D"," ">>, CSV_FILE), StatusLine(<<"?","?">>, CSV_FILE)>> }

\* What get_changed_files([CSV_FILE]) comes to: git status exits non-zero,
\* or the paths of the lines it printed.
StatusReplies ==
    { [ ok |-> FALSE, files |-> <<>> ] }
        \cup { [ ok |-> TRUE, files |-> get_changed_files(out) ] : out \in CsvStatusOutputs }

\* The rest of main: get_changed_files runs git status with check=True and
\* nothing catches its CalledProcessError; when it reports the manifest,
\* commit_and_push_batch_for_paths(changed, batch_index="csv"); "Done.".
MainSync ==
    /\ script = "new"
    /\ mpc = "done"
    /\ cpc = "csv"
    /\ \E st \in StatusReplies :
         IF ~st.ok
         THEN /\ cpc' = "raised"
              /\ csv_log' = Append(csv_log, GitRun("status", FALSE))
              /\ UNCHANGED changed
         ELSE /\ cpc' = "exit"
              /\ changed' = st.files
              /\ IF st.files = <<>>
                 THEN csv_log' = Append(csv_log, GitRun("status", TRUE))
                 ELSE \E exits \in GitExits :
                        csv_log' = Append(csv_log, GitRun("status", TRUE))
                                       \o GitCommands(exits).cmds
    /\ UNCHANGED <<csv, changed_local_paths>>
    /\ UNCHANGED <<remote_files, next_file, mpc, pre_size, downloaded_paths_for_batch,
                   total_downloaded, batch_count, all_downloaded_paths, file_list,
                   batch_start, git_log>>
    /\ UNCHANGED <<walkVars, dlVars, sizeVars>>

\* The local files a run of main may find.
MainFilesBefore ==
    { << >>,
      (DestPath(REMOTE_BASE_URL \o <<"a",".","m","p","3">>)
          :> [ k \in 1..(MAX_FILE_SIZE_BYTES + 1) |-> "o" ]) }

\* main after ensure_dir(DEST_DIR) and walk_remote: the loop is about to take
\* the first candidate.
MainStart ==
    /\ remote_files \in SeqsUpTo(CandidateUrls, MaxFiles)
    /\ next_file = 0
    /\ mpc = "loop"
    /\ pre_size = None
    /\ downloaded_paths_for_batch = <<>>
    /\ total_downloaded = 0
    /\ batch_count = 0
    /\ all_downloaded_paths = <<>>
    /\ file_list = <<>>
    /\ batch_start = 0
    /\ git_log = <<>>
    /\ script = "new"
    /\ remote = [ u \in CandidateUrls |-> <<"x">> ]
    /\ fs \in MainFilesBefore
    /\ dirs = { DEST_DIR }
    /\ d_url = <<>>
    /\ d_dest = <<>>
    /\ remote_size = None
    /\ attempt = 0
    /\ dpc = "idle"
    /\ d_result = "none"
    /\ d_reason = ""
    /\ sleeps = <<>>
    /\ installs = 0
    /\ fs0 = fs
    /\ dirs0 = dirs
    /\ TailIdle

\* The locals of a download_file call are gone once main has its result.
DlForget ==
    /\ d_url' = <<>>
    /\ d_dest' = <<>>
    /\ remote_size' = None
    /\ attempt' = 0
    /\ dpc' = "idle"
    /\ d_result' = "none"
    /\ d_reason' = ""
    /\ sleeps' = <<>>
    /\ installs' = 0
    /\ fs0' = fs
    /\ dirs0' = dirs

\* The head of a loop iteration: the next candidate, its dest_path, and the
\* pre-check of its size; a candidate known to be too large is passed over,
\* for any other download_file(url, dest_path) is called.
MainPreCheck ==
    /\ script = "new"
    /\ mpc = "loop"
    /\ dpc = "idle"
    /\ next_file < Len(remote_files)
    /\ next_file' = next_file + 1
    /\ \E size \in RemoteSizes :
         /\ pre_size' = size
         /\ IF TooLarge(size)
            THEN /\ UNCHANGED <<mpc, dlVars>>
            ELSE /\ mpc' = "download"
                 /\ d_url' = remote_files[next_file + 1]
                 /\ d_dest' = DestPath(remote_files[next_file + 1])
                 /\ remote_size' = None
                 /\ attempt' = 0
                 /\ dpc' = "call"
                 /\ d_result' = "none"
                 /\ d_reason' = ""
                 /\ sleeps' = <<>>
                 /\ installs' = 0
                 /\ fs0' = fs
                 /\ dirs0' = dirs
                 /\ UNCHANGED <<script, remote, fs, dirs>>
    /\ UNCHANGED <<remote_files, downloaded_paths_for_batch, total_downloaded,
                   batch_count, all_downloaded_paths, file_list, batch_start, git_log>>
    /\ UNCHANGED <<walkVars, tailVars, sizeVars>>

\* The rest of the iteration, download_file having returned: a downloaded
\* path joins the batch, and a batch of BATCH_SIZE paths is committed and
\* pushed and the batch emptied.
MainCollect ==
    /\ script = "new"
    /\ mpc = "download"
    /\ dpc = "returned"
    /\ d_result \in { "True", "False" }
    /\ LET batch == IF d_result = "True"
                    THEN Append(downloaded_paths_for_batch, d_dest)
                    ELSE downloaded_paths_for_batch
       IN  /\ all_downloaded_paths' =
                 IF d_result = "True" THEN Append(all_downloaded_paths, d_dest)
                 ELSE all_downloaded_paths
           /\ total_downloaded' = total_downloaded + (IF d_result = "True" THEN 1 ELSE 0)
           /\ IF BatchReady(batch)
              THEN /\ batch_count' = batch_count + 1
                   /\ \E exits \in GitExits :
                        git_log' = Append(git_log,
                            BatchRecord(RelPathsForGit(batch), batch_count + 1, FALSE,
                                        Len(all_downloaded_paths'), exits))
                   /\ downloaded_paths_for_batch' = AfterFlush(batch)
              ELSE /\ downloaded_paths_for_batch' = batch
                   /\ UNCHANGED <<batch_count, git_log>>
    /\ mpc' = "loop"
    /\ DlForget
    /\ UNCHANGED <<remote_files, next_file, pre_size, file_list, batch_start>>
    /\ UNCHANGED <<script, remote, fs, dirs>>
    /\ UNCHANGED <<walkVars, tailVars, sizeVars>>

\* download_file raised: nothing in main, of either script, catches it, and
\* the run ends.
MainRaise ==
    /\ mpc = "download"
    /\ dpc = "returned"
    /\ d_result = "raised"
    /\ mpc' = "crashed"
    /\ UNCHANGED <<remote_files, next_file, pre_size, downloaded_paths_for_batch,
                   total_downloaded, batch_count, all_downloaded_paths, file_list, batch_start, git_log>>
    /\ UNCHANGED dlVars
    /\ UNCHANGED <<walkVars, tailVars, sizeVars>>

\* After the loop: a batch that is not empty is committed and pushed.
MainTrailing ==
    /\ script = "new"
    /\ mpc = "loop"
    /\ dpc = "idle"
    /\ next_file >= Len(remote_files)
    /\ IF downloaded_paths_for_batch # <<>>
       THEN /\ batch_count' = batch_count + 1
            /\ \E exits \in GitExits :
                 git_log' = Append(git_log,
                     BatchRecord(RelPathsForGit(downloaded_paths_for_batch),
                                 batch_count + 1, TRUE, total_downloaded, exits))
            /\ downloaded_paths_for_batch' = AfterFlush(downloaded_paths_for_batch)
       ELSE UNCHANGED <<batch_count, git_log, downloaded_paths_for_batch>>
    /\ mpc' = "done"
    /\ UNCHANGED <<remote_files, next_file, pre_size, total_downloaded,
                   all_downloaded_paths, file_list, batch_start>>
    /\ UNCHANGED dlVars
    /\ UNCHANGED <<walkVars, tailVars, sizeVars>>

MainNext == MainPreCheck \/ DlNext \/ MainCollect \/ MainRaise \/ MainTrailing

\* ------------------------------------------------------------------------
\* main of download_and_push.py and its commit_and_push_in_batches
\* ------------------------------------------------------------------------

\* The characters of the paths of the model, in the order of their bytes.
CharOrder ==
    <<".","/">> \o DigitChars \o <<":","@">> \o UpperChars \o <<"_">> \o LowerChars

Ord(c) == CHOOSE i \in DOMAIN CharOrder : CharOrder[i] = c

\* Path a sorts before path b, byte by byte, as git sorts the paths it lists.
PathBefore(a, b) ==
    \E k \in 1..(Len(a) + 1) :
        /\ k - 1 <= Len(b)
        /\ SubSeq(a, 1, k - 1) = SubSeq(b, 1, k - 1)
        /\ k <= Len(b)
        /\ k <= Len(a) => Ord(a[k]) < Ord(b[k])

RECURSIVE SortPaths(_)
\* The paths of S in git's order.
SortPaths(S) ==
    IF S = {} THEN <<>>
    ELSE LET first == CHOOSE x \in S : \A y \in S \ { x } : PathBefore(x, y)
         IN  <<first>> \o SortPaths(S \ { first })

\* The files of the mirror and the manifest that are on disk, the ".part"
\* files failed downloads left included: what "git status --porcelain
\* --untracked-files=all -- apps_audio audio_links.csv" can list as
\* untracked.
StatusPaths ==
    { q \in DOMAIN fs : startswith(q, DEST_DIR \o <<"/">>) }
        \cup (IF csv.written THEN { CSV_FILE } ELSE {})

\* The paths under the two pathspecs the index of the model may hold: every
\* local path of a candidate and its ".part" file, on disk or not, and the
\* manifest.
MirrorPaths ==
    UNION { { DestPath(u), TmpPath(DestPath(u)) } : u \in CandidateUrls } \cup { CSV_FILE }

\* The renames staged in the index, as a function from the new path to the
\* old one: at most MaxRenames of the tracked paths listed, each from a path
\* that is not listed itself.
Renamings(tracked) ==
    UNION { { f \in [ news -> MirrorPaths \ tracked ] :
                \A x, y \in news : x # y => f[x] # f[y] } :
            news \in { n \in SUBSET tracked : Cardinality(n) <= MaxRenames } }

\* The line of a tracked path: "R  old -> new" for a rename; for a path not
\* on disk " D"; for a path on disk "D " when it is deleted from the index
\* (git then lists it among the untracked as well) and " M" otherwise.
TrackedLine(q, renamed, present, untracked) ==
    IF q \in DOMAIN renamed
    THEN StatusLine(<<"R"," ">>, renamed[q] \o <<" ","-",">"," ">> \o q)
    ELSE IF q \notin present THEN StatusLine(<<" ","D">>, q)
    ELSE IF q \in untracked THEN StatusLine(<<"D"," ">>, q)
    ELSE StatusLine(<<" ","M">>, q)

\* The paths of the model in git's order, and those of them that are in S.
SortedMirrorPaths == SortPaths(MirrorPaths)

Sorted(S) == SelectSeq(SortedMirrorPaths, LAMBDA q : q \in S)

\* What "git status --porcelain --untracked-files=all -- apps_audio
\* audio_links.csv" prints when it exits 0, of at most MaxChanged lines:
\* the tracked paths that are modified, deleted or renamed, in the order of
\* their paths (a rename by its new path), then the untracked files, in
\* theirs.  What the index and .gitignore hold is the repository's matter: a
\* tracked path may be gone from disk, deleted before the run or renamed by
\* os.replace in it, and a path on disk may be listed in both groups.
GitStatusOutputs(present) ==
    UNION { LET first == Sorted(tracked)
            IN  UNION { { LET last == Sorted(untracked)
                          IN  [ k \in DOMAIN first |->
                                  TrackedLine(first[k], renamed, present, untracked) ]
                              \o [ k \in DOMAIN last |->
                                  StatusLine(<<"?","?">>, last[k]) ] :
                          untracked \in { u \in SUBSET present :
                              Cardinality(tracked) + Cardinality(u) <= MaxChanged } } :
                        renamed \in Renamings(tracked) } :
            tracked \in { t \in SUBSET MirrorPaths : Cardinality(t) <= MaxChanged } }

\* What get_changed_files([DEST_DIR, CSV_FILE]) returns for a git status
\* that exits 0.
GitStatus(present) == { get_changed_files(out) : out \in GitStatusOutputs(present) }

\* What the git commands of one batch of commit_and_push_in_batches come to:
\* as in GitOutcomes, and git reset failing after a failed commit.  A failed
\* git add or git reset raises out of the function.
BatchOutcomes == GitOutcomes \cup { "reset-failed" }

\* The local files a run of main of download_and_push.py may find: none, or
\* a file of an earlier run and the ".part" file an interrupted run left
\* beside it.
DapFilesBefore ==
    { << >>,
      (DestPath(REMOTE_BASE_URL \o <<"s","u","b","/","b",".","j","p","g">>) :> <<"o">>)
        @@ (TmpPath(DestPath(REMOTE_BASE_URL \o <<"s","u","b","/","b",".","j","p","g">>)) :> <<"o">>) }

\* main of download_and_push.py after ensure_dir(DEST_DIR) and walk_remote:
\* changed_local_paths = [] and the loop is about to take the first
\* candidate.
DapStart ==
    /\ remote_files \in SeqsUpTo(CandidateUrls, MaxFiles)
    /\ next_file = 0
    /\ mpc = "loop"
    /\ pre_size = None
    /\ downloaded_paths_for_batch = <<>>
    /\ total_downloaded = 0
    /\ batch_count = 0
    /\ all_downloaded_paths = <<>>
    /\ file_list = <<>>
    /\ batch_start = 0
    /\ git_log = <<>>
    /\ script = "dap"
    /\ remote = [ u \in CandidateUrls |-> <<"x">> ]
    /\ fs \in DapFilesBefore
    /\ dirs = { DEST_DIR } \cup UNION { Ancestors(dirname(q)) : q \in DOMAIN fs }
    /\ d_url = <<>>
    /\ d_dest = <<>>
    /\ remote_size = None
    /\ attempt = 0
    /\ dpc = "idle"
    /\ d_result = "none"
    /\ d_reason = ""
    /\ sleeps = <<>>
    /\ installs = 0
    /\ fs0 = fs
    /\ dirs0 = dirs
    /\ TailIdle

\* The head of a loop iteration: the next candidate and its dest_path, and
\* download_file(url, dest_path) is called.
DapCall ==
    /\ script = "dap"
    /\ mpc = "loop"
    /\ dpc = "idle"
    /\ next_file < Len(remote_files)
    /\ next_file' = next_file + 1
    /\ mpc' = "download"
    /\ d_url' = remote_files[next_file + 1]
    /\ d_dest' = DestPath(remote_files[next_file + 1])
    /\ remote_size' = None
    /\ attempt' = 0
    /\ dpc' = "call"
    /\ d_result' = "none"
    /\ d_reason' = ""
    /\ sleeps' = <<>>
    /\ installs' = 0
    /\ fs0' = fs
    /\ dirs0' = dirs
    /\ UNCHANGED <<script, remote, fs, dirs>>
    /\ UNCHANGED <<remote_files, pre_size, downloaded_paths_for_batch, total_downloaded,
                   batch_count, all_downloaded_paths, file_list, batch_start, git_log>>
    /\ UNCHANGED <<walkVars, tailVars, sizeVars>>

\* The rest of the iteration, download_file having returned: the dest_path
\* of a download joins changed_local_paths.
DapCollect ==
    /\ script = "dap"
    /\ mpc = "download"
    /\ dpc = "returned"
    /\ d_result \in { "True", "False" }
    /\ changed_local_paths' =
          IF d_result = "True" THEN Append(changed_local_paths, d_dest)
          ELSE changed_local_paths
    /\ mpc' = "loop"
    /\ DlForget
    /\ UNCHANGED <<cpc, csv, changed, csv_log>>
    /\ UNCHANGED <<remote_files, next_file, pre_size, downloaded_paths_for_batch,
                   total_downloaded, batch_count, all_downloaded_paths, file_list,
                   batch_start, git_log>>
    /\ UNCHANGED <<script, remote, fs, dirs>>
    /\ UNCHANGED <<walkVars, sizeVars>>

\* After the last candidate: generate_csv(DEST_DIR, CSV_FILE,
\* REMOTE_BASE_URL).
DapCsv ==
    /\ script = "dap"
    /\ mpc = "loop"
    /\ dpc = "idle"
    /\ next_file >= Len(remote_files)
    /\ cpc = "idle"
    /\ generate_csv
    /\ mpc' = "done"
    /\ UNCHANGED <<changed, changed_local_paths>>
    /\ UNCHANGED <<remote_files, next_file, pre_size, downloaded_paths_for_batch,
                   total_downloaded, batch_count, all_downloaded_paths, file_list,
                   batch_start, git_log>>
    /\ UNCHANGED <<walkVars, dlVars, sizeVars>>

\* changed = get_changed_files([DEST_DIR, CSV_FILE]): git status runs with
\* check=True and nothing catches its CalledProcessError; with its list
\* commit_and_push_in_batches(changed, batch_size=BATCH_SIZE) is called.
DapStatus ==
    /\ script = "dap"
    /\ mpc = "done"
    /\ cpc = "csv"
    /\ \/ /\ cpc' = "raised"
          /\ csv_log' = Append(csv_log, GitRun("status", FALSE))
          /\ UNCHANGED <<changed, file_list, mpc>>
       \/ \E reply \in GitStatus(StatusPaths) :
            /\ cpc' = "status"
            /\ csv_log' = Append(csv_log, GitRun("status", TRUE))
            /\ changed' = reply
            /\ file_list' = reply
            /\ mpc' = "batches"
    /\ UNCHANGED <<csv, changed_local_paths>>
    /\ UNCHANGED <<remote_files, next_file, pre_size, downloaded_paths_for_batch,
                   total_downloaded, batch_count, all_downloaded_paths, batch_start, git_log>>
    /\ UNCHANGED <<walkVars, dlVars, sizeVars>>

\* commit_and_push_in_batches has returned: "Done.".
DapDone ==
    /\ script = "dap"
    /\ mpc = "done"
    /\ cpc = "status"
    /\ cpc' = "exit"
    /\ UNCHANGED <<csv, changed, csv_log, changed_local_paths>>
    /\ UNCHANGED <<remote_files, next_file, mpc, pre_size, downloaded_paths_for_batch,
                   total_downloaded, batch_count, all_downloaded_paths, file_list,
                   batch_start, git_log>>
    /\ UNCHANGED <<walkVars, dlVars, sizeVars>>

\* if not file_list: "No files to commit."
CpbEmpty ==
    /\ mpc = "batches"
    /\ file_list = <<>>
    /\ mpc' = "done"
    /\ UNCHANGED <<remote_files, next_file, pre_size, downloaded_paths_for_batch,
                   total_downloaded, batch_count, all_downloaded_paths, file_list,
                   batch_start, git_log>>
    /\ UNCHANGED <<walkVars, dlVars, tailVars, sizeVars>>

\* The git commands one turn of the loop runs, by what they come to: git
\* add; git commit; after a failed commit git reset; else git push.
CpbCommands(outcome) ==
    CASE outcome = "add-failed" -> <<GitRun("add", FALSE)>>
      [] outcome = "nothing-to-commit" ->
            <<GitRun("add", TRUE), GitRun("commit", FALSE), GitRun("reset", TRUE)>>
      [] outcome = "reset-failed" ->
            <<GitRun("add", TRUE), GitRun("commit", FALSE), GitRun("reset", FALSE)>>
      [] outcome = "push-failed" ->
            <<GitRun("add", TRUE), GitRun("commit", TRUE), GitRun("push", FALSE)>>
      [] outcome = "pushed" ->
            <<GitRun("add", TRUE), GitRun("commit", TRUE), GitRun("push", TRUE)>>

\* One turn of "for i in range(0, total, batch_size)": the slice
\* file_list[i:i + batch_size] is added, committed and pushed.
CpbBatch ==
    /\ mpc = "batches"
    /\ file_list # <<>>
    /\ batch_start < Len(file_list)
    /\ \E outcome \in BatchOutcomes :
         /\ git_log' = Append(git_log,
                [ paths    |-> Slice(file_list, batch_start, batch_start + BATCH_SIZE),
                  given    |-> Len(Slice(file_list, batch_start, batch_start + BATCH_SIZE)),
                  index    |-> (batch_start \div BATCH_SIZE) + 1,
                  trailing |-> FALSE,
                  total    |-> 0,
                  cmds     |-> CpbCommands(outcome),
                  result   |-> outcome = "pushed",
                  outcome  |-> outcome ])
         /\ IF outcome \in { "add-failed", "reset-failed" }
            THEN mpc' = "crashed" /\ UNCHANGED batch_start
            ELSE mpc' = "batches" /\ batch_start' = batch_start + BATCH_SIZE
    /\ UNCHANGED <<remote_files, next_file, pre_size, downloaded_paths_for_batch,
                   total_downloaded, batch_count, all_downloaded_paths, file_list>>
    /\ UNCHANGED <<walkVars, dlVars, tailVars, sizeVars>>

\* The loop is over: "All batches pushed."
CpbReturn ==
    /\ mpc = "batches"
    /\ file_list # <<>>
    /\ batch_start >= Len(file_list)
    /\ mpc' = "done"
    /\ UNCHANGED <<remote_files, next_file, pre_size, downloaded_paths_for_batch,
                   total_downloaded, batch_count, all_downloaded_paths, file_list,
                   batch_start, git_log>>
    /\ UNCHANGED <<walkVars, dlVars, tailVars, sizeVars>>

CpbNext == CpbEmpty \/ CpbBatch \/ CpbReturn

DapNext ==
    DapCall \/ DlNext \/ DapCollect \/ MainRaise \/ DapCsv \/ DapStatus \/ CpbNext \/ DapDone

\* No run of main is in progress.
MainIdle ==
    /\ remote_files = <<>>
    /\ next_file = 0
    /\ mpc = "idle"
    /\ pre_size = None
    /\ downloaded_paths_for_batch = <<>>
    /\ total_downloaded = 0
    /\ batch_count = 0
    /\ all_downloaded_paths = <<>>
    /\ file_list = <<>>
    /\ batch_start = 0
    /\ git_log = <<>>
    /\ TailIdle

\* No walk is in progress.
WalkIdle ==
    /\ site = << >>
    /\ to_visit = <<>>
    /\ seen_dirs = {}
    /\ files = <<>>
    /\ url = <<>>
    /\ wpc = "idle"
    /\ fetched = {}
    /\ refetched = {}

\* ------------------------------------------------------------------------
\* Specifications
\* ------------------------------------------------------------------------

\* One call of walk_remote(REMOTE_BASE_URL).
WalkInit == WalkStart /\ DlIdle /\ MainIdle /\ SizeIdle

WalkSpec == WalkInit /\ [][WalkNext]_vars

\* The walk as the one control thread runs it: it takes its next step as long
\* as it has one.
WalkFair == WalkSpec /\ WF_vars(WalkNext)

\* One call of download_file.
DlInit == WalkIdle /\ MainIdle /\ DlCall /\ SizeIdle

DlSpec == DlInit /\ [][DlNext]_vars

\* One run of main of new.py from the download loop on, up to the end of the
\* loop and its trailing flush.
MainInit == WalkIdle /\ MainStart /\ SizeIdle

MainSpec == MainInit /\ [][MainNext]_vars

\* One run of main of download_and_push.py from the download loop on.
DapInit == WalkIdle /\ DapStart /\ SizeIdle

\* The two ways the scripts batch what they hand to git: a run of main of
\* new.py up to its trailing flush, or a run of main of download_and_push.py
\* over at most MaxDapFiles candidates.
BatchInit == MainInit \/ (DapInit /\ Len(remote_files) <= MaxDapFiles)

BatchNext == MainNext \/ DapNext

BatchSpec == BatchInit /\ [][BatchNext]_vars

\* One call of get_remote_size, of either script.
SizeInit == WalkIdle /\ DlIdle /\ MainIdle /\ SizeCall

SizeSpec == SizeInit /\ [][SizeNext]_vars

\* Whole runs of main of either script, from the download loop to the last
\* line: of new.py over at most MaxRunFiles candidates, of
\* download_and_push.py over at most MaxDapFiles.
RunInit ==
    \/ MainInit /\ Len(remote_files) <= MaxRunFiles
    \/ DapInit /\ Len(remote_files) <= MaxDapFiles

TailNext == MainCsv \/ MainSync

RunNext == MainNext \/ TailNext \/ DapNext

RunSpec == RunInit /\ [][RunNext]_vars

\* main of new.py is run again after a run that ended, at "Done." or by an
\* exception: the walk returns the candidates it returned before, the remote
\* serves what it served, and the local tree and the manifest are as the
\* last run left them.
MainAgain ==
    /\ script = "new"
    /\ \/ mpc = "done" /\ cpc \in { "exit", "raised" }
       \/ mpc = "crashed"
    /\ next_file' = 0
    /\ mpc' = "loop"
    /\ pre_size' = None
    /\ downloaded_paths_for_batch' = <<>>
    /\ total_downloaded' = 0
    /\ batch_count' = 0
    /\ all_downloaded_paths' = <<>>
    /\ git_log' = <<>>
    /\ cpc' = "idle"
    /\ changed' = <<>>
    /\ csv_log' = <<>>
    /\ DlForget
    /\ UNCHANGED <<remote_files, file_list, batch_start, csv, changed_local_paths>>
    /\ UNCHANGED <<script, remote, fs, dirs>>
    /\ UNCHANGED <<walkVars, sizeVars>>

\* Runs of main of new.py one after the other, each to its last line, over
\* at most MaxRunFiles candidates.
RerunInit == MainInit /\ Len(remote_files) <= MaxRunFiles

RerunNext == MainNext \/ TailNext \/ MainAgain

RerunSpec == RerunInit /\ [][RerunNext]_vars

\* ------------------------------------------------------------------------
\* Properties of the Tree Walker
\* ------------------------------------------------------------------------

HasAnchor(u, href) == u \in DOMAIN site /\ site[u].ok /\ href \in Range(site[u].anchors)

\* C1: in one walk no directory URL is passed to get_remote_index more than
\* once: a URL is fetched only when it was not in the visited set, and it is
\* in the visited set by the time it is fetched.
C1_NoDirectoryFetchedTwice ==
    /\ refetched = {}
    /\ fetched \subseteq seen_dirs
    /\ wpc = "fetch" => url \in seen_dirs /\ url \notin fetched

\* A finished walk of a cyclic site: the root links to sub/, whose page links
\* back to the root by /apps_audio/.
C1_Witness ==
    /\ wpc = "done"
    /\ HasAnchor(REMOTE_BASE_URL, <<"s","u","b","/">>)
    /\ HasAnchor(SubUrl, <<"/","a","p","p","s","_","a","u","d","i","o","/">>)
    /\ SubUrl \in fetched

\* The listing of a directory as the reference takes it: the anchors of its
\* page without the literal '../' and '/', none when its fetch failed.
RefListing(u) ==
    IF u \in DOMAIN site /\ site[u].ok
    THEN SelectSeq(site[u].anchors, LAMBDA h : h # <<".",".","/">> /\ h # <<"/">>)
    ELSE <<>>

RefDirLinks(u) ==
    { urljoin(u, h) : h \in { x \in Range(RefListing(u)) : x[Len(x)] = "/" } }

RECURSIVE RefReach(_)
\* The directories reachable from those of D by links whose href ends in '/'.
RefReach(D) ==
    LET more == D \cup UNION { RefDirLinks(u) : u \in D }
    IN  IF more = D THEN D ELSE RefReach(more)

RefFiles ==
    UNION { { urljoin(u, h) :
                h \in { x \in Range(RefListing(u)) :
                          /\ x[Len(x)] # "/"
                          /\ lower(splitext_ext(urlparse(urljoin(u, x), <<>>).path))
                                \in EXTENSIONS } } :
            u \in RefReach({ REMOTE_BASE_URL }) }

\* C2: the URLs walk_remote returns are exactly the reference set: the
\* matching file links on the pages of the directories reachable from the
\* root, a failed fetch counting as an empty page; and exactly the reachable
\* directories were fetched.
C2_WalkReturnsReferenceSet ==
    wpc = "done" =>
        /\ fetched = RefReach({ REMOTE_BASE_URL })
        /\ Range(files) = RefFiles

\* The scenario of the specification: the root lists [a.MP3, sub/], sub/
\* lists [a.MP3, ../]; the candidates are root/a.MP3 and root/sub/a.MP3, the
\* '../' anchor is left out and the walk has ended.
C2_Witness ==
    /\ wpc = "done"
    /\ REMOTE_BASE_URL \in DOMAIN site /\ SubUrl \in DOMAIN site
    /\ site[REMOTE_BASE_URL] = [ok |-> TRUE, anchors |-> << <<"a",".","M","P","3">>, <<"s","u","b","/">> >>]
    /\ site[SubUrl] = [ok |-> TRUE, anchors |-> << <<"a",".","M","P","3">>, <<".",".","/">> >>]
    /\ files = << REMOTE_BASE_URL \o <<"a",".","M","P","3">>, SubUrl \o <<"a",".","M","P","3">> >>
    /\ fetched = { REMOTE_BASE_URL, SubUrl }

\* C3: the walk terminates: the frontier drains and walk_remote returns.
C3_WalkTerminates == <>(wpc = "done")

\* A walk that returned although the root's page links to the root itself
\* and to sub/, and the fetch of sub/ failed.
C3_Witness ==
    /\ wpc = "done"
    /\ to_visit = <<>>
    /\ HasAnchor(REMOTE_BASE_URL, <<"/","a","p","p","s","_","a","u","d","i","o","/">>)
    /\ HasAnchor(REMOTE_BASE_URL, <<"s","u","b","/">>)
    /\ SubUrl \in DOMAIN site /\ ~site[SubUrl].ok

\* ------------------------------------------------------------------------
\* Properties of the Incremental Downloader
\* ------------------------------------------------------------------------

\* The file at path is in f what it was before the call: absent as before, or
\* of the same content.
Unchanged(f, path) ==
    /\ path \in DOMAIN f <=> path \in DOMAIN fs0
    /\ path \in DOMAIN f => f[path] = fs0[path]

\* C4: Atomic install.  At every point during and after download_file the
\* file at dest_path is absent, or what it was before the call, or the whole
\* body of a transfer that finished; only dest_path and its ".part" sibling
\* are ever written, dest_path only by the rename of a ".part" file holding
\* the whole body; and when the retries are exhausted nothing was promoted.
C4_AtomicInstall ==
    /\ \/ d_dest \notin DOMAIN fs
       \/ Unchanged(fs, d_dest)
       \/ installs > 0 /\ fs[d_dest] = remote[d_url]
    /\ installs = 0 => Unchanged(fs, d_dest)
    /\ \A q \in (DOMAIN fs \cup DOMAIN fs0) \ { d_dest, d_dest \o <<".","p","a","r","t">> } :
            Unchanged(fs, q)
    /\ d_reason = "failed" => installs = 0 /\ Unchanged(fs, d_dest)

\* A call that failed on every attempt, the last one after it wrote part of
\* the body to the ".part" file, while an older file is at dest_path.
C4_Witness ==
    /\ d_reason = "failed"
    /\ d_dest \in DOMAIN fs0
    /\ Len(remote[d_url]) = 2
    /\ d_dest \o <<".","p","a","r","t">> \in DOMAIN fs
    /\ fs[d_dest \o <<".","p","a","r","t">>] = <<"x">>
    /\ fs[d_dest] = fs0[d_dest]

\* C5: Same-size skip.  Once the remote size is known, when a file was at
\* dest_path whose length equals it and it does not exceed the maximum, the
\* call has returned False as skipped for same size, without a transfer
\* attempt, and with every local file, dest_path and its ".part" sibling
\* among them, as it was.  This holds for either script.
C5_SameSizeSkip ==
    ( /\ remote_size # None
      /\ remote_size <= MAX_FILE_SIZE_BYTES
      /\ d_dest \in DOMAIN fs0
      /\ Len(fs0[d_dest]) = remote_size )
    => /\ dpc = "returned"
       /\ d_result = "False"
       /\ d_reason = "same-size"
       /\ attempt = 0
       /\ sleeps = <<>>
       /\ installs = 0
       /\ fs = fs0

\* download_and_push.py skips a file of one chunk for its size while a stale
\* ".part" file lies beside it.
C5_Witness ==
    /\ script = "dap"
    /\ d_reason = "same-size"
    /\ remote_size = 1
    /\ d_dest \in DOMAIN fs0
    /\ d_dest \o <<".","p","a","r","t">> \in DOMAIN fs
    /\ fs = fs0

\* C7: Retry discipline.  The attempts of a call number at most MAX_RETRIES;
\* a call that is not skipped makes at least one; a call returns Downloaded
\* at its first attempt that succeeds, having installed once, every attempt
\* before it having failed; a call returns Failed only after exactly
\* MAX_RETRIES failed attempts and no success; and an exception leaves
\* download_file only before the first attempt.
C7_RetryDiscipline ==
    /\ attempt \in 0..MAX_RETRIES
    /\ installs \in 0..1
    /\ Len(sleeps) <= attempt
    /\ dpc = "returned" /\ d_reason \notin { "too-large", "same-size", "raised" }
          => attempt >= 1
    /\ d_reason = "downloaded" =>
          /\ d_result = "True"
          /\ installs = 1
          /\ Len(sleeps) = attempt - 1
    /\ installs = 1 => dpc = "returned" /\ d_reason = "downloaded"
    /\ d_reason = "failed" =>
          /\ d_result = "False"
          /\ attempt = MAX_RETRIES
          /\ Len(sleeps) = MAX_RETRIES
          /\ installs = 0
    /\ d_result = "raised" => attempt = 0
    /\ attempt >= 1 => d_result # "raised"

\* A call that downloaded at its last attempt, every one before having failed.
C7_Witness ==
    /\ d_reason = "downloaded"
    /\ attempt = MAX_RETRIES
    /\ Len(sleeps) = MAX_RETRIES - 1

\* ------------------------------------------------------------------------
\* Properties of the Batch Orchestrator
\* ------------------------------------------------------------------------

\* In every state of a download_file call of new.py: a known size above the
\* maximum has made the call return False as too large, with no attempt, no
\* delay, no install and no file changed, whether or not a file of that size
\* is at dest_path; a known size up to the maximum is never skipped as too
\* large.
TooLargeInDownload ==
    /\ remote_size # None /\ remote_size > MAX_FILE_SIZE_BYTES =>
          /\ dpc = "returned"
          /\ d_result = "False"
          /\ d_reason = "too-large"
          /\ attempt = 0
          /\ sleeps = <<>>
          /\ installs = 0
          /\ fs = fs0
    /\ remote_size # None /\ remote_size <= MAX_FILE_SIZE_BYTES => d_reason # "too-large"
    /\ d_reason = "too-large" => remote_size # None /\ remote_size > MAX_FILE_SIZE_BYTES

\* The steps of main around the size tests: the pre-check passes over a
\* candidate exactly when its size is known and above the maximum, without
\* a call of download_file and with the batch, the counts and the files as
\* they were; and a call that returned as too large adds nothing to the batch.
TooLargeInMain ==
    /\ mpc = "loop" /\ next_file' = next_file + 1 =>
          IF pre_size' # None /\ pre_size' > MAX_FILE_SIZE_BYTES
          THEN /\ mpc' = "loop"
               /\ dpc' = "idle"
               /\ attempt' = 0
               /\ UNCHANGED <<downloaded_paths_for_batch, total_downloaded,
                              all_downloaded_paths, git_log, fs, dirs>>
          ELSE /\ mpc' = "download"
               /\ dpc' = "call"
    /\ mpc = "download" /\ d_reason = "too-large" /\ mpc' # "download" =>
          UNCHANGED <<downloaded_paths_for_batch, total_downloaded,
                      all_downloaded_paths, git_log, fs>>

\* C6: Too-large skip.  A candidate whose remote size is known and strictly
\* above the maximum is skipped, by the pre-check of main or by
\* download_file, with no transfer attempt and nothing added to the batch;
\* the test comes before the same-size test; a size equal to the maximum is
\* not skipped as too large.
C6_TooLargeSkip == [](TooLargeInDownload) /\ [][TooLargeInMain]_vars

\* download_file has returned as too large for a candidate whose local file
\* has the very size the server reported, the pre-check having let it pass.
C6_Witness ==
    /\ mpc = "download"
    /\ d_reason = "too-large"
    /\ pre_size \in { None, MAX_FILE_SIZE_BYTES }
    /\ d_dest \in DOMAIN fs
    /\ Len(fs[d_dest]) = remote_size

\* C8: Batch bound.  In new.py the in-progress batch never holds more than
\* BATCH_SIZE paths and neither a full nor the trailing batch is larger,
\* before or after the removal of duplicates; in download_and_push.py every
\* slice handed to git add holds at most batch_size paths.
C8_BatchBound ==
    /\ Len(downloaded_paths_for_batch) <= BATCH_SIZE
    /\ \A k \in DOMAIN git_log :
          /\ git_log[k].given <= BATCH_SIZE
          /\ Len(git_log[k].paths) <= BATCH_SIZE

\* A call of commit_and_push_in_batches has staged a full slice and a last,
\* shorter one, of a list that names a rename and a path twice.
C8_Witness ==
    /\ script = "dap"
    /\ mpc = "done"
    /\ Len(git_log) = 2
    /\ git_log[1].given = BATCH_SIZE
    /\ git_log[2].given < BATCH_SIZE
    /\ \E i, j \in DOMAIN changed : i # j /\ changed[i] = changed[j]
    /\ \E i \in DOMAIN changed : find(changed[i], <<" ","-",">"," ">>) # -1

\* The flushes so far are those of a run with total_downloaded successes:
\* the k-th flush inside the loop came with the (k * BATCH_SIZE)-th success
\* and holds BATCH_SIZE paths, a trailing flush is the last one, made after
\* the loop for a remainder that is not empty, and there is no other.
FlushesMatchDownloads ==
    /\ batch_count = Len(git_log)
    /\ \A k \in DOMAIN git_log :
          /\ git_log[k].index = k
          /\ IF git_log[k].trailing
             THEN /\ k = Len(git_log)
                  /\ mpc = "done"
                  /\ git_log[k].total = total_downloaded
                  /\ git_log[k].given = total_downloaded % BATCH_SIZE
                  /\ git_log[k].given > 0
             ELSE /\ git_log[k].total = k * BATCH_SIZE
                  /\ git_log[k].given = BATCH_SIZE
    /\ mpc # "done" =>
          /\ Len(git_log) = total_downloaded \div BATCH_SIZE
          /\ Len(downloaded_paths_for_batch) = total_downloaded % BATCH_SIZE
    /\ mpc = "done" =>
          /\ Len(git_log) = (total_downloaded + BATCH_SIZE - 1) \div BATCH_SIZE
          /\ downloaded_paths_for_batch = <<>>

\* A step flushes only with a successful download or at the end of the loop.
FlushOnlyOnSuccessOrEnd ==
    git_log' # git_log =>
        \/ mpc = "download" /\ d_result = "True" /\ ~git_log'[Len(git_log')].trailing
        \/ /\ mpc = "loop" /\ next_file >= Len(remote_files)
           /\ mpc' = "done" /\ git_log'[Len(git_log')].trailing

\* C9: Flush schedule.  In a run of main of new.py a flush is made exactly
\* with each BATCH_SIZE-th successful download since the last flush, and
\* once more after the last candidate when the remainder is not empty; no
\* other step flushes, none for a skipped or failed candidate.
C9_FlushSchedule == [](FlushesMatchDownloads) /\ [][FlushOnlyOnSuccessOrEnd]_vars

\* A finished run of three candidates of which two were downloaded and one
\* was skipped or failed: the one flush is the full batch, and no trailing
\* flush was made.
C9_Witness ==
    /\ script = "new"
    /\ mpc = "done"
    /\ Len(remote_files) = BATCH_SIZE + 1
    /\ total_downloaded = BATCH_SIZE
    /\ Len(git_log) = 1
    /\ ~git_log[1].trailing

RECURSIVE FlushedPaths(_)
\* The number of paths handed to git add over the batches of log.
FlushedPaths(log) ==
    IF log = <<>> THEN 0 ELSE Len(log[1].paths) + FlushedPaths(Tail(log))

RECURSIVE GivenPaths(_)
\* The number of paths of the batches of log before duplicates were removed.
GivenPaths(log) ==
    IF log = <<>> THEN 0 ELSE log[1].given + GivenPaths(Tail(log))

\* The downloads that went into the k-th batch.
DownloadsOfBatch(k) ==
    { n \in DOMAIN all_downloaded_paths :
        (k - 1) * BATCH_SIZE < n /\ n <= k * BATCH_SIZE }

\* The claim as stated: at the end of a run the paths flushed, counted after
\* the removal of duplicates, number total_downloaded.
C10_FlushedEqualsDownloaded ==
    mpc = "done" /\ script = "new" => FlushedPaths(git_log) = total_downloaded

\* C10 (amended): at the end of a run of main of new.py the batches hold,
\* before duplicates are removed, total_downloaded paths in all; each batch
\* hands to git add the distinct paths among its downloads, in order of
\* first download; so the paths flushed number at most total_downloaded, and
\* exactly total_downloaded when no batch holds a path twice.
C10_FlushedCountsDistinct ==
    mpc = "done" /\ script = "new" =>
        /\ GivenPaths(git_log) = total_downloaded
        /\ Len(all_downloaded_paths) = total_downloaded
        /\ \A k \in DOMAIN git_log :
              /\ Range(git_log[k].paths) = { all_downloaded_paths[n] : n \in DownloadsOfBatch(k) }
              /\ Len(git_log[k].paths) = Cardinality(Range(git_log[k].paths))
        /\ FlushedPaths(git_log) <= total_downloaded
        /\ (\A k \in DOMAIN git_log : Len(git_log[k].paths) = git_log[k].given)
              => FlushedPaths(git_log) = total_downloaded

\* A finished run that downloaded to one path twice within a batch: two
\* downloads, one path flushed.
C10_Witness ==
    /\ script = "new"
    /\ mpc = "done"
    /\ total_downloaded = 2
    /\ Len(git_log) = 1
    /\ git_log[1].given = 2
    /\ Len(git_log[1].paths) = 1

\* The downloads of the k-th batch, in the order the loop made them.
BatchDownloads(k) ==
    SubSeq(all_downloaded_paths, (k - 1) * BATCH_SIZE + 1,
           Min(k * BATCH_SIZE, Len(all_downloaded_paths)))

RECURSIVE KeepFirst(_)
\* s without the entries that occur earlier in s.
KeepFirst(s) ==
    IF s = <<>> THEN <<>>
    ELSE LET init == SubSeq(s, 1, Len(s) - 1)
         IN  IF s[Len(s)] \in Range(init) THEN KeepFirst(init)
             ELSE Append(KeepFirst(init), s[Len(s)])

RECURSIVE FlushedSequence(_)
\* The paths of the batches of log, one batch after the other.
FlushedSequence(log) ==
    IF log = <<>> THEN <<>> ELSE log[1].paths \o FlushedSequence(Tail(log))

\* The claim as stated: at the end of a run the flushed batches, one after
\* the other, are the downloaded paths in loop order, and the batches are
\* numbered 1, 2, 3, ...
C11_FlushesAreTheDownloads ==
    script = "new" =>
        /\ \A k \in DOMAIN git_log : git_log[k].index = k
        /\ mpc = "done" => FlushedSequence(git_log) = all_downloaded_paths

\* C11 (amended): the batches are numbered 1, 2, 3, ... in flush order; the
\* k-th batch is flushed when its last download is the latest one, before
\* any later path is ingested; it holds the paths of its downloads in the
\* order of their first download within the batch, a path downloaded again
\* within the batch occurring once; so at the end of a run the flushed
\* batches, one after the other, are the downloaded paths in loop order
\* without the repeats within a batch.
C11_FlushesKeepDownloadOrder ==
    script = "new" =>
        /\ \A k \in DOMAIN git_log :
              /\ git_log[k].index = k
              /\ git_log[k].total = Min(k * BATCH_SIZE, Len(all_downloaded_paths))
              /\ ~git_log[k].trailing => git_log[k].total = k * BATCH_SIZE
              /\ git_log[k].paths = KeepFirst(BatchDownloads(k))
        /\ Len(all_downloaded_paths) <= (Len(git_log) + 1) * BATCH_SIZE
        /\ mpc = "done" =>
              /\ Len(all_downloaded_paths) <= Len(git_log) * BATCH_SIZE
              /\ (\A k \in DOMAIN git_log : git_log[k].given = Len(git_log[k].paths))
                    => FlushedSequence(git_log) = all_downloaded_paths

\* A finished run of three downloads, to two different paths and then to the
\* first again: the full batch holds the two in download order, the trailing
\* batch the third.
C11_Witness ==
    /\ script = "new"
    /\ mpc = "done"
    /\ Len(all_downloaded_paths) = BATCH_SIZE + 1
    /\ all_downloaded_paths[1] # all_downloaded_paths[2]
    /\ Len(git_log) = 2
    /\ git_log[1].paths = SubSeq(all_downloaded_paths, 1, BATCH_SIZE)
    /\ git_log[2].paths = <<all_downloaded_paths[BATCH_SIZE + 1]>>

\* A step that flushes a batch leaves the in-progress batch empty whatever
\* the flush reports, ends nothing, and leaves the loop where it was: at the
\* next candidate, or after the last one.
FlushResetsAndContinues ==
    git_log' # git_log /\ script = "new" =>
        /\ Len(git_log') = Len(git_log) + 1
        /\ downloaded_paths_for_batch' = <<>>
        /\ next_file' = next_file
        /\ remote_files' = remote_files
        /\ dpc' = "idle"
        /\ IF mpc = "download" THEN mpc' = "loop" ELSE mpc' = "done"

\* Between two candidates the loop can always go on, whatever the flushes so
\* far came to: no download is pending, which is all that the pre-check of
\* the next candidate and the end of the loop wait for; only a download that
\* raised ends the run; and every flush so far began with the staging of its
\* own batch.
LoopGoesOn ==
    script = "new" =>
        /\ mpc = "loop" => dpc = "idle"
        /\ mpc = "crashed" => d_result = "raised"
        /\ \A k \in DOMAIN git_log :
              /\ git_log[k].cmds # <<>>
              /\ git_log[k].cmds[1].cmd = "add"

\* C12: A failed push does not block later work.  The step that flushes a
\* batch empties the in-progress batch whatever the flush reports, push
\* failure included, and the loop continues with the next candidate; the
\* next batch is staged, committed and pushed at its own threshold or at the
\* end of input, its git commands meeting exits of their own.
C12_FailedPushDoesNotBlock == [](LoopGoesOn) /\ [][FlushResetsAndContinues]_vars

\* A finished run whose first batch met a push failure and whose second
\* batch was staged, committed and pushed.
C12_Witness ==
    /\ script = "new"
    /\ mpc = "done"
    /\ Len(git_log) = 2
    /\ git_log[1].outcome = "push-failed"
    /\ ~git_log[1].result
    /\ git_log[2].cmds = <<GitRun("add", TRUE), GitRun("commit", TRUE), GitRun("push", TRUE)>>
    /\ git_log[2].result

\* The git commands of one flush follow the protocol: first git add; git
\* commit only after a git add that succeeded; git push only after a git
\* commit that succeeded, and last; after a failed commit git reset and no
\* push; after a failed add nothing more; the flush returns True exactly when
\* the push succeeded.
ProtocolOrder(r) ==
    /\ r.cmds # <<>>
    /\ r.cmds[1].cmd = "add"
    /\ \A i \in DOMAIN r.cmds :
          /\ r.cmds[i].cmd = "add" => i = 1
          /\ r.cmds[i].cmd = "commit" => i = 2 /\ r.cmds[1].ok
          /\ r.cmds[i].cmd = "push" =>
                /\ i = 3 /\ i = Len(r.cmds)
                /\ r.cmds[2].cmd = "commit" /\ r.cmds[2].ok
          /\ r.cmds[i].cmd = "reset" =>
                /\ i = 3 /\ i = Len(r.cmds)
                /\ r.cmds[2].cmd = "commit" /\ ~r.cmds[2].ok
          /\ r.cmds[i].cmd \in { "add", "commit", "push", "reset" }
    /\ ~r.cmds[1].ok => Len(r.cmds) = 1
    /\ r.cmds[1].ok => Len(r.cmds) = 3 /\ r.cmds[2].cmd = "commit"
    /\ Len(r.cmds) = 3 /\ ~r.cmds[2].ok => r.cmds[3].cmd = "reset"
    /\ Len(r.cmds) = 3 /\ r.cmds[2].ok => r.cmds[3].cmd = "push"
    /\ r.result <=> (Len(r.cmds) = 3 /\ r.cmds[3].cmd = "push" /\ r.cmds[3].ok)

\* C13: Protocol order within a flush.  In every flush of
\* commit_and_push_batch_for_paths the commit is attempted only after the
\* staging succeeded and the push only after the commit succeeded; a failed
\* commit is followed by the unstaging of the batch and no push; a failed
\* staging by neither commit nor push, and it ends only that flush: the run
\* is not ended by it.
C13_ProtocolOrder ==
    script = "new" =>
        /\ \A k \in DOMAIN git_log : ProtocolOrder(git_log[k])
        /\ mpc = "crashed" => d_result = "raised"

\* A run in which the staging of the first batch failed and the commit of
\* the second reported nothing to commit, after which the batch was unstaged.
C13_Witness ==
    /\ script = "new"
    /\ mpc = "done"
    /\ Len(git_log) = 2
    /\ git_log[1].cmds = <<GitRun("add", FALSE)>>
    /\ Len(git_log[2].cmds) = 3
    /\ git_log[2].cmds[2] = GitRun("commit", FALSE)
    /\ git_log[2].cmds[3].cmd = "reset"

\* ------------------------------------------------------------------------
\* Properties of whole runs
\* ------------------------------------------------------------------------

\* The last git command the tail of main ran failed.
LastTailCommandFailed == csv_log # <<>> /\ ~csv_log[Len(csv_log)].ok

\* git add was run after git status in the tail of main.
SyncAttempted ==
    \E i \in DOMAIN csv_log : \E j \in DOMAIN csv_log :
        i < j /\ csv_log[i].cmd = "status" /\ csv_log[j].cmd = "add"

\* C14: in every run of main of new.py, whatever the downloads and the batch
\* syncs came to, every candidate of the walk has been through the download
\* loop, one after the other in walk order, by the time the loop is over;
\* then the manifest is generated and, when it changed, its sync attempted:
\* the run ends at "Done." and nowhere earlier.  The one early end allowed
\* for is the local filesystem error of ensure_dir, which the specification
\* makes fatal.
C14_RunReachesManifestSync ==
    script = "new" =>
        /\ next_file <= Len(remote_files)
        /\ mpc = "done" => next_file = Len(remote_files)
        /\ cpc # "idle" => mpc = "done"
        /\ mpc = "crashed" => d_result = "raised"
        /\ cpc # "raised"
        /\ cpc = "exit" =>
              /\ csv.written
              /\ changed # <<>> => SyncAttempted

\* C15: no failing git command is fatal: a run of main, of new.py or of
\* download_and_push.py with its commit_and_push_in_batches, is never ended by
\* an exception right after a git command (add, commit, reset, push, status,
\* remote get-url) that exited non-zero.
C15_NoGitFailureIsFatal ==
    /\ script = "new" /\ cpc = "raised" => ~LastTailCommandFailed
    /\ script = "new" /\ mpc = "crashed" => d_result = "raised"
    /\ script = "dap" /\ cpc = "raised" => ~LastTailCommandFailed
    /\ script = "dap" /\ mpc = "crashed" =>
          \A k \in DOMAIN git_log :
              \A i \in DOMAIN git_log[k].cmds :
                  git_log[k].cmds[i].cmd \in { "add", "reset" } => git_log[k].cmds[i].ok

\* ------------------------------------------------------------------------
\* Further properties of download_file
\* ------------------------------------------------------------------------

\* The step in which get_remote_size answers None goes on to the first
\* transfer attempt, whatever is at dest_path.
UnknownSizeGoesToAttempt ==
    dpc = "size" /\ remote_size' = None => dpc' = "attempt" /\ attempt' = 1

\* A call whose size is unknown and that got past ensure_dir is in or past
\* its first attempt, and returns only as Downloaded or Failed.
UnknownSizeNeverSkips ==
    remote_size = None /\ dpc \in { "attempt", "write", "returned" } /\ d_result # "raised" =>
        /\ attempt >= 1
        /\ d_reason \notin { "too-large", "same-size" }
        /\ dpc = "returned" =>
              /\ d_reason \in { "downloaded", "failed" }
              /\ d_reason = "downloaded" => installs = 1
              /\ d_reason = "failed" => Len(sleeps) >= 1

\* C16: when the remote size is unknown (get_remote_size returns None),
\* download_file of either script never returns as Skipped: neither the
\* too-large test nor the same-size test applies, and at least one transfer
\* attempt is made, also when a file exists at dest_path.
C16_UnknownSizeAlwaysAttempts ==
    [](UnknownSizeNeverSkips) /\ [][UnknownSizeGoesToAttempt]_vars

\* A call that found a file at dest_path, got no size, and downloaded.
C16_Witness ==
    /\ dpc = "returned"
    /\ remote_size = None
    /\ d_dest \in DOMAIN fs0
    /\ d_reason = "downloaded"
    /\ installs = 1

\* C18: every call of download_file that returns reports one of three
\* outcomes its caller can tell apart: Skipped (too large or same size),
\* Downloaded, or Failed after the retries; the value returned for Failed is
\* not the value returned for Skipped.
C18_ThreeOutcomes ==
    dpc = "returned" /\ d_result # "raised" =>
        /\ d_reason \in { "too-large", "same-size", "downloaded", "failed" }
        /\ d_reason = "downloaded" <=> d_result = "True"
        /\ d_reason \in { "too-large", "same-size" } => d_result = "False"
        /\ d_reason = "failed" => d_result \notin { "True", "False" }

\* C19: a call of download_file that returns because the file is too large
\* leaves the local filesystem as it found it: no file and no directory, the
\* parent directories of dest_path included, is created, changed or removed.
C19_TooLargeSkipChangesNothing ==
    dpc = "returned" /\ d_reason = "too-large" => fs = fs0 /\ dirs = dirs0

\* C20: download_file delays only between two consecutive attempts: never
\* before the first, never after an attempt that succeeded, never after the
\* last failed one; and the delay after failed attempt k is 2^k seconds.
C20_BackoffBetweenAttempts ==
    /\ attempt = 0 => sleeps = <<>>
    /\ attempt >= 1 => Len(sleeps) <= attempt - 1
    /\ d_reason = "downloaded" => Len(sleeps) = attempt - 1
    /\ d_reason = "failed" => Len(sleeps) = MAX_RETRIES - 1
    /\ \A k \in DOMAIN sleeps : sleeps[k] = 2 ^ k

\* ------------------------------------------------------------------------
\* Further properties of the Tree Walker
\* ------------------------------------------------------------------------

\* C17: what walk_remote returns is a set of candidates: no file URL occurs
\* in it more than once, however often a listing, or several listings, link
\* the file.
C17_WalkReturnsNoDuplicates ==
    wpc = "done" => \A i \in DOMAIN files : \A j \in DOMAIN files : files[i] = files[j] => i = j

\* The walk stayed in the subtree of the root: every directory URL fetched
\* and every candidate collected has the root URL as a prefix.
WalkInsideRoot ==
    /\ \A u \in fetched : startswith(u, REMOTE_BASE_URL)
    /\ \A i \in DOMAIN files : startswith(files[i], REMOTE_BASE_URL)

\* C24, as claimed: the traversal is confined to the subtree of the root for
\* every listing content, the listings with absolute paths, with absolute
\* URLs and with multi-level parent references such as '../../' included.
C24_WalkConfinedToRoot == WalkInsideRoot

\* A relative reference that only descends: no leading '/', no scheme and
\* no '..' in it.
PlainRelative(href) ==
    /\ href # <<>>
    /\ href[1] # "/"
    /\ \A i \in DOMAIN href : href[i] # ":"
    /\ \A i \in 1..(Len(href) - 1) : ~(href[i] = "." /\ href[i + 1] = ".")

\* Every anchor of every listing fetched so far is the literal '../' or '/',
\* or a relative reference that only descends.
ListingsDescend ==
    \A u \in DOMAIN site :
        \A h \in Range(site[u].anchors) : h \in ParentAnchors \/ PlainRelative(h)

\* C24, amended: the traversal is confined to the subtree of the root as
\* long as the listings hold, besides the literal '../' and '/', only
\* relative references that descend: then every directory URL fetched and
\* every candidate collected has the root URL as a prefix.
C24_WalkConfinedWhenListingsDescend == ListingsDescend => WalkInsideRoot

\* A finished walk over descending listings that hold the parent anchor
\* '../' too: sub/ and, below it, sub/sub/ were fetched and a candidate was
\* returned.
C24_Witness ==
    /\ wpc = "done"
    /\ ListingsDescend
    /\ \E u \in DOMAIN site : <<".",".","/">> \in Range(site[u].anchors)
    /\ SubUrl \in fetched
    /\ (SubUrl \o <<"s","u","b","/">>) \in fetched
    /\ files # <<>>

\* ------------------------------------------------------------------------
\* Properties of the Size Oracle
\* ------------------------------------------------------------------------

\* C21: no network response outlives the operation that opened it: when
\* get_remote_size has returned, by a length, by None or by an exception,
\* every response it opened, the streaming GET of its fallback included, has
\* been closed.
C21_NoResponseLeftOpen ==
    spc \in { "returned", "raised" } => s_open = {}

\* The answer carries a Content-Length that is a number.
HasLength(resp) == ~resp.err /\ resp.cl.present /\ IsDigits(resp.cl.value)

\* The header-only request succeeded, with status 200, and with a length.
HeadGivesLength == HasLength(s_head) /\ s_head.status = 200

\* The fallback GET passed raise_for_status and has a length.
GetGivesLength == HasLength(s_get) /\ s_get.status < 400

\* C22: get_remote_size never raises.  When the HEAD succeeds with a length
\* header it returns that length and issues no GET; otherwise (exception,
\* other status, header absent, empty or not a number) it issues the
\* streaming GET exactly once and returns its length when the status is a
\* success and the header a number; when neither gives a length it returns
\* None.
C22_SizeOracle ==
    /\ spc # "raised"
    /\ \A i \in DOMAIN s_requests : s_requests[i] = (IF i = 1 THEN "HEAD" ELSE "GET")
    /\ Len(s_requests) <= 2
    /\ spc = "fallback" => ~HeadGivesLength /\ s_requests = <<"HEAD">>
    /\ spc = "returned" =>
          IF HeadGivesLength
          THEN /\ s_result = IntOf(s_head.cl.value)
               /\ s_requests = <<"HEAD">>
          ELSE /\ s_requests = <<"HEAD", "GET">>
               /\ s_result = (IF GetGivesLength THEN IntOf(s_get.cl.value) ELSE None)

\* A call whose HEAD answered 200 with a Content-Length that is not a
\* number, and whose fallback GET gave the length.
C22_Witness ==
    /\ spc = "returned"
    /\ ~s_head.err /\ s_head.status = 200 /\ s_head.cl.value = <<"x">>
    /\ s_requests = <<"HEAD", "GET">>
    /\ s_result = MaxBody

\* ------------------------------------------------------------------------
\* Properties of runs after runs
\* ------------------------------------------------------------------------

\* Distinct candidates, and distinct local paths for them.
DistinctPaths ==
    \A i \in DOMAIN remote_files : \A j \in DOMAIN remote_files :
        DestPath(remote_files[i]) = DestPath(remote_files[j]) => i = j

\* When the download_file call in progress began, the local tree held for
\* every candidate the body the remote serves for it: an earlier run has
\* downloaded every one of them.
MirroredBefore ==
    \A i \in DOMAIN remote_files :
        /\ DestPath(remote_files[i]) \in DOMAIN fs0
        /\ fs0[DestPath(remote_files[i])] = remote[remote_files[i]]

\* download_file has returned to the loop for a candidate of a run after a
\* run that downloaded every candidate, and both sizes the Size Oracle gave
\* for it, to main and to download_file, are known and not above the maximum.
RerunCandidateReturned ==
    /\ script = "new"
    /\ mpc = "download"
    /\ dpc = "returned"
    /\ DistinctPaths
    /\ MirroredBefore
    /\ pre_size # None /\ pre_size <= MAX_FILE_SIZE_BYTES
    /\ remote_size # None /\ remote_size <= MAX_FILE_SIZE_BYTES

\* The candidate was skipped as unchanged: no transfer attempt, and the local
\* tree as it was.
SkippedUnchanged ==
    /\ d_reason = "same-size"
    /\ d_result = "False"
    /\ attempt = 0
    /\ sleeps = <<>>
    /\ fs = fs0
    /\ dirs = dirs0

\* C23 as stated, for runs over one candidate: in a run of main of new.py
\* after a run that downloaded the candidate, the remote unchanged and the
\* size of the candidate known and no larger than the maximum, the candidate
\* is skipped as unchanged, with no transfer attempt, the mirror tree
\* unchanged and no flush.
C23_RerunSkipsEverything ==
    RerunCandidateReturned /\ Len(remote_files) = 1 =>
        /\ SkippedUnchanged
        /\ total_downloaded = 0
        /\ git_log = <<>>

\* Nothing is flushed, and nothing waits in a batch, in a run that has
\* downloaded nothing.
NoFlushWithoutDownload ==
    script = "new" /\ total_downloaded = 0 =>
        git_log = <<>> /\ downloaded_paths_for_batch = <<>> /\ all_downloaded_paths = <<>>

\* The local tree changes only inside download_file, and a skipped candidate
\* adds nothing to the count, the batch or the flushes.
SkipsLeaveNoTrace ==
    /\ fs' # fs \/ dirs' # dirs => dpc \in { "call", "attempt", "write" }
    /\ mpc = "download" /\ dpc = "returned" /\ d_reason = "same-size" =>
          /\ total_downloaded' = total_downloaded
          /\ downloaded_paths_for_batch' = downloaded_paths_for_batch
          /\ git_log' = git_log
          /\ fs' = fs /\ dirs' = dirs

\* C23: idempotence across runs.  In a run of main of new.py after a run
\* that downloaded every candidate, distinct candidates having distinct
\* local paths and the remote unchanged, each candidate whose size is known,
\* no larger than the maximum, and equal to the length of the file its
\* download installed is skipped as unchanged, with no transfer attempt and
\* the mirror tree unchanged; a skipped candidate adds nothing to a batch,
\* and a run that downloads nothing flushes nothing.
C23_RerunSkipsSameSize ==
    /\ [](RerunCandidateReturned /\ remote_size = Len(fs0[d_dest]) => SkippedUnchanged)
    /\ [](NoFlushWithoutDownload)
    /\ [][SkipsLeaveNoTrace]_vars

\* The second of two candidates has been skipped as unchanged in a run after
\* a run that downloaded both, and nothing has been downloaded or flushed in
\* this run.
C23_Witness ==
    /\ RerunCandidateReturned
    /\ Len(remote_files) = MaxRunFiles
    /\ next_file = MaxRunFiles
    /\ remote_size = Len(fs0[d_dest])
    /\ SkippedUnchanged
    /\ total_downloaded = 0
    /\ git_log = <<>>

====
